---- MODULE Spec2Model ----
(***************************************************************************)
(* Model of the IrishSat software receiver chain: the CRC codec            *)
(* (USRP/Signals/lib/CRC.py), the Mueller & Mueller timing recovery loop   *)
(* and the frame synchroniser (PySDR-master/lib/sync.py, inlined again in  *)
(* USRP/Signals/func.py) and the BPSK symbol demodulator                   *)
(* (USRP/Signals/lib/symbol_demod_QAM.py).                                 *)
(*                                                                         *)
(* Python values are modelled as follows.  A numpy array is a sequence     *)
(* (index i of the code is index i+1 here).  A call that may raise returns *)
(* a record [exc, val]: exc = "none" and val the returned value, or exc    *)
(* the name of the Python exception.  Real samples are integers, complex   *)
(* samples are pairs <<re, im>> of integers, and distances are compared    *)
(* through their squares (exact arithmetic).                               *)
(***************************************************************************)
EXTENDS Integers, Sequences, FiniteSets, TLC

VARIABLES
    \* ---- CRC codec (CRC.py) ----
    crc_pc,        \* position of the CRC scenario
    data,          \* the data bits handed to encodeData (or, raw, to CRCcheck)
    key,           \* the generator key
    codeword,      \* result of encodeData, possibly with one bit flipped
    flipped,       \* index (0-based) of the flipped bit, -1 when none
    error,         \* result of CRCcheck
    crc_tail,      \* the last len(key)-1 bits of a received word data + tail
    \* ---- timing recovery (sync.py mmcr) ----
    mm_pc,         \* "idle", "loop", "done", "raised"
    mm_len,        \* len(testpacket)
    mu,            \* fractional phase, in sixteenths of a sample
    i_in,          \* input sample index
    i_out,         \* output index
    mm_iter,       \* number of loop iterations executed
    mm_written,    \* set of slots of out that were assigned
    mm_read,       \* index read from samples_interpolated in the last iteration
    mm_out_len,    \* len of the returned sequence
    \* ---- frame sync (sync.py frame_sync) + demodulation ----
    fs_pc,         \* "idle", "start", "scaled", "correlated", "peak", "done", "demod", "raised"
    fs_testpacket, \* the buffer (real samples)
    fs_preamble,   \* the preamble (bits)
    fs_data_len,   \* data_len
    fs_frame,      \* [offset, payload] when the buffer embeds a frame, else NoFrame
    fs_out,        \* rescaled samples (numerators, see Rescale)
    fs_crosscorr,  \* full cross-correlation
    fs_idx,        \* argmax of the cross-correlation
    fs_recoveredPayload,
    fs_recoveredData,
    fs_bits,       \* demodulated payload
    \* ---- symbol demodulator (symbol_demod_QAM.py) ----
    dm_pc,         \* "idle", "start", "modulated", "received", "roundtrip", "done", "raised"
    dm_bits,       \* bits handed to symbol_mod
    dm_symbols,    \* baseband symbols, complex
    dm_gain,       \* channel_gain
    dm_demodulated,\* a_demodulated
    dm_scheme,     \* scheme
    dm_preamble_len, \* preamble_length / preamble_len
    dm_exc,        \* the exception symbol_demod raised, "none" if none
    \* ---- pulse shaper (pulse_shaping.py) ----
    ps_pc,         \* "idle", "start", "upsampled", "done"
    ps_a,          \* a: the symbols handed to pulse_shaping
    ps_M,          \* M: oversampling factor
    ps_L,          \* L: span of the filter in symbols
    ps_pulse_shape,\* "rrc" or "rect"
    ps_pad,        \* which output length the installed upfirdn produces
    ps_y,          \* y: the upsampled symbols
    ps_baseband_len, \* len(baseband)
    \* ---- SignalProcessing.encode (func.py) ----
    en_pc,         \* "idle", "start", "framed", "train", "done"
    en_data,       \* data
    en_sps,        \* self.sps
    en_pulse_shape,\* self.pulse_shape
    en_L,          \* self.pulse_shape_length
    en_bits,       \* bits
    en_pulse_train,\* pulse_train
    en_iq_len,     \* len(iq_data)
    \* ---- the SignalProcessing object (func.py __init__) ----
    obj_data_length, \* self.data_length
    \* ---- SignalProcessing.decode (func.py), one entry per concurrent call ----
    de_pc,         \* position of the call in decode
    de_in,         \* the input of the call: [n, err, peak]
    de_len,        \* len(testpacket) at the current stage
    de_loop,       \* loop state per frame of locals: mu, i_in, i_out, phase, freq
    de_idx,        \* idx of frame sync
    de_result,     \* demod_bits, as the indices of the samples they are decided from
    de_stages,     \* the stages the call has run, in order
    de_calls,      \* number of decode calls the thread has started
    \* ---- IQ imbalance correction (IQ_Imbalance_correction.py) ----
    iq_pc,         \* "idle", "start", "centred", "estimated", "returned"
    iq_I,          \* I = np.real(packet)
    iq_Q,          \* Q = np.imag(packet)
    iq_mean_period,\* mean_period
    iq_I_second,   \* I_second, numerators over Factorial(len(packet))
    iq_Q_Second,   \* Q_Second, numerators over Factorial(len(packet))
    iq_sin_psi,    \* sin_psi: "nan", "in", "one" (|sin_psi| = 1) or "out" (|sin_psi| > 1)
    iq_result,     \* the returned packet: "none", "finite", "inf" or "nan"
    \* ---- Costas loop (func.py decode, sync.py costas) ----
    cl_pc,         \* "idle", "sample", "wrapdown", "wrapup", "returned", "raised"
    cl_fn,         \* which copy of the loop runs: "decode" (func.py) or "costas" (sync.py)
    cl_out_n,      \* number of entries of out written so far
    cl_log_n,      \* len(freq_log)
    cl_exc,        \* the exception that ended the loop, "none" if none
    cl_N,          \* N = len(testpacket)
    cl_i,          \* i of for i in range(N)
    cl_phase,      \* phase, a floating-point number
    cl_freq,       \* freq, a floating-point number
    cl_alpha,      \* self.costas_alpha
    cl_beta,       \* self.costas_beta
    \* ---- a sequence of operations on one SignalProcessing object (func.py) ----
    oc_pc,         \* the last operation: "idle", "init", "encoded", "assigned", "decoded"
    oc_last_write, \* what wrote self.data_length last: "init", "encode" or "assign"
    oc_last_encode,\* len(data) of the most recent encode call, -1 if there was none
    oc_last_assign,\* the constructor argument or the last value assigned directly
    oc_frames,     \* the data lengths of the frames encode has produced
    oc_decoded     \* the last decode call: frame decoded, data_encoded_length, window

crcVars == <<crc_pc, data, key, codeword, flipped, error, crc_tail>>
mmVars == <<mm_pc, mm_len, mu, i_in, i_out, mm_iter, mm_written, mm_read, mm_out_len>>
fsVars == <<fs_pc, fs_testpacket, fs_preamble, fs_data_len, fs_frame, fs_out,
            fs_crosscorr, fs_idx, fs_recoveredPayload, fs_recoveredData, fs_bits>>
dmVars == <<dm_pc, dm_bits, dm_symbols, dm_gain, dm_demodulated, dm_scheme,
           dm_preamble_len, dm_exc>>
psVars == <<ps_pc, ps_a, ps_M, ps_L, ps_pulse_shape, ps_pad, ps_y, ps_baseband_len>>
enVars == <<en_pc, en_data, en_sps, en_pulse_shape, en_L, en_bits, en_pulse_train,
           en_iq_len>>
objVars == <<obj_data_length>>
deVars == <<de_pc, de_in, de_len, de_loop, de_idx, de_result, de_stages, de_calls>>
coreVars == <<crcVars, mmVars, fsVars, dmVars>>
iqVars == <<iq_pc, iq_I, iq_Q, iq_mean_period, iq_I_second, iq_Q_Second, iq_sin_psi,
           iq_result>>
clVars == <<cl_pc, cl_N, cl_i, cl_phase, cl_freq, cl_alpha, cl_beta, cl_fn, cl_out_n,
            cl_log_n, cl_exc>>
ocVars == <<oc_pc, oc_last_write, oc_last_encode, oc_last_assign, oc_frames, oc_decoded>>
extVars == <<psVars, enVars, objVars, deVars, iqVars, clVars, ocVars>>
vars == <<coreVars, extVars>>

(***************************************************************************)
(* Bounds of the model.                                                    *)
(***************************************************************************)
MaxDataLen == 4      \* longest data sequence given to the CRC codec
MaxKeyLen == 3       \* longest enumerated key (the 12-bit CRC_key is added)
MaxMMLen == 30       \* longest input of the timing recovery loop
MaxSigLen == 4       \* longest arbitrary buffer given to frame sync
MaxPreLen == 2       \* longest arbitrary preamble given to frame sync
MaxPayloadLen == 2   \* longest payload (data_len) of frame sync
MaxOffset == 2       \* largest offset of an embedded frame
MaxTail == 1         \* most idle samples after an embedded frame
MaxSymLen == 2       \* longest symbol / bit sequence given to the demodulator
MaxCoord == 1        \* largest |I| and |Q| of an arbitrary received symbol
MaxGain == 2         \* largest channel_gain
MaxQAMBits == 8      \* longest bit sequence given to the 16-QAM modulator
MaxQAMPre == 2       \* longest preamble of a 16-QAM packet
MaxQAMCoord == 4     \* largest |I| and |Q| of a received 16-QAM symbol
MaxPSLen == 3        \* longest symbol sequence given to pulse_shaping
MaxPSM == 3          \* largest oversampling factor M of pulse_shaping
MaxSpan == 2         \* largest filter span L
MaxEncData == 4      \* longest data sequence given to encode
MaxEncSps == 2       \* largest self.sps of encode
MinDecLen == 8       \* a short input of decode (no payload is recovered)
MaxDecLen == 592     \* a long input of decode (74 symbols of 8 samples)
MaxDecOffset == 1    \* latest correlation peak of decode, in symbols after the preamble end
MaxDecData == 1      \* largest self.data_length seen by decode
MaxCalls == 2        \* decode calls per thread
MaxIQLen == 3        \* longest packet given to IQ_Imbalance_Correct
MaxIQPeriod == 2     \* largest mean_period
MantBits == 4        \* bits of the significand of the modelled floating-point numbers
MaxCLLen == 3        \* longest input of the Costas loop
MaxCLGain == 1       \* largest loop gain costas_alpha / costas_beta
MaxObjData == 2      \* longest data of an encode call / largest data_length assigned
MaxObjTail == 1      \* most idle symbols after the frame in a decoded buffer

(***************************************************************************)
(* Python helpers.                                                         *)
(***************************************************************************)
Ok(v) == [exc |-> "none", val |-> v]
Raise(e) == [exc |-> e, val |-> <<>>]
RaiseInt(e) == [exc |-> e, val |-> -1]
NoResult == [exc |-> "unset", val |-> <<>>]
NoResultInt == [exc |-> "unset", val |-> -1]

Min(a, b) == IF a < b THEN a ELSE b
Max(a, b) == IF a > b THEN a ELSE b

Bit == {0, 1}
BitSeqs(lo, hi) == UNION {[1..m -> Bit] : m \in lo..hi}

Zeros(n) == [i \in 1..n |-> 0]
Ones(n) == [i \in 1..n |-> 1]

\* A slice bound of Python, normalised against a sequence of length n.
SliceBound(i, n) == IF i < 0 THEN Max(i + n, 0) ELSE Min(i, n)

\* s[lo:hi] of Python (0-based, negative bounds count from the end, clamped).
PySlice(s, lo, hi) ==
    SubSeq(s, SliceBound(lo, Len(s)) + 1, SliceBound(hi, Len(s)))

(***************************************************************************)
(* CRC.py                                                                  *)
(***************************************************************************)
\* SignalProcessing.CRC_key
CRC_key == <<1, 0, 0, 1, 1, 0, 0, 0, 0, 1, 1, 1>>

\* Mutant of xor: the traversal starts at bit 0 (range(0, len(b))).
xor_FromZero(a, b) == [i \in 1..Len(b) |-> IF a[i] = b[i] THEN 0 ELSE 1]

\* xor(a, b): bits 1 .. len(b)-1 (0-based) of a XOR b; bit 0 is dropped.
xor(a, b) == [i \in 1..(Len(b) - 1) |-> IF a[i + 1] = b[i + 1] THEN 0 ELSE 1]

\* The while loop of mod2div followed by its final step.
RECURSIVE mod2divLoop(_, _, _, _)
mod2divLoop(tmp, pick, dividend, divisor) ==
    IF pick < Len(dividend)
    THEN IF Len(tmp) = 0 THEN Raise("IndexError")
         ELSE IF tmp[1] = 1
         THEN mod2divLoop(Append(xor(divisor, tmp), dividend[pick + 1]),
                          pick + 1, dividend, divisor)
         ELSE mod2divLoop(Append(xor(Ones(pick), tmp), dividend[pick + 1]),
                          pick + 1, dividend, divisor)
    ELSE IF Len(tmp) = 0 THEN Raise("IndexError")
         ELSE IF tmp[1] = 1
         THEN Ok(xor(divisor, tmp))
         ELSE Ok(xor(Zeros(pick), tmp))

\* The values of tmp[0] that the while loop and the final step of mod2div
\* test, in order (1: XOR with the divisor; 0: the other branch).
RECURSIVE mod2divDecisions(_, _, _, _)
mod2divDecisions(tmp, pick, dividend, divisor) ==
    IF Len(tmp) = 0 THEN <<>>
    ELSE IF pick < Len(dividend)
    THEN <<tmp[1]>> \o
         mod2divDecisions(Append(xor(IF tmp[1] = 1 THEN divisor ELSE Ones(pick), tmp),
                                 dividend[pick + 1]),
                          pick + 1, dividend, divisor)
    ELSE <<tmp[1]>>

\* Mutant of encodeData: zeros are appended in place of the remainder.
encodeData_NoRemainder(d, k) ==
    IF Len(k) = 0 THEN Raise("ValueError") ELSE Ok(d \o Zeros(Len(k) - 1))

mod2div(dividend, divisor) ==
    mod2divLoop(PySlice(dividend, 0, Len(divisor)), Len(divisor), dividend, divisor)

encodeData(d, k) ==
    IF Len(k) = 0 THEN Raise("ValueError")
    ELSE LET appended_data == d \o Zeros(Len(k) - 1)
             remainder == mod2div(appended_data, k)
         IN  IF remainder.exc # "none" THEN remainder
             ELSE Ok(d \o remainder.val)

\* Mutant of CRCcheck: np.any in place of np.all.
CRCcheck_Any(cw, k) ==
    LET checkword == mod2div(cw, k)
    IN  IF checkword.exc # "none" THEN RaiseInt(checkword.exc)
        ELSE IF \E i \in 1..Len(checkword.val) : checkword.val[i] = 0
        THEN Ok(0)
        ELSE Ok(1)

CRCcheck(cw, k) ==
    LET checkword == mod2div(cw, k)
    IN  IF checkword.exc # "none" THEN RaiseInt(checkword.exc)
        ELSE IF \A i \in 1..Len(checkword.val) : checkword.val[i] = 0
        THEN Ok(0)
        ELSE Ok(1)

Keys == BitSeqs(1, MaxKeyLen) \cup {CRC_key}
Datas == BitSeqs(0, MaxDataLen)

(***************************************************************************)
(* Idle values: a scenario leaves the other components' variables alone.   *)
(***************************************************************************)
CRCIdle ==
    /\ crc_pc = "idle" /\ data = <<>> /\ key = <<>>
    /\ codeword = NoResult /\ flipped = -1 /\ error = NoResultInt
    /\ crc_tail = <<>>

MMIdle ==
    /\ mm_pc = "idle" /\ mm_len = 0 /\ mu = 0 /\ i_in = 0 /\ i_out = 0
    /\ mm_iter = 0 /\ mm_written = {} /\ mm_read = 0 /\ mm_out_len = 0

NoFrame == [offset |-> -1, payload |-> <<>>]

FSIdle ==
    /\ fs_pc = "idle" /\ fs_testpacket = <<>> /\ fs_preamble = <<>>
    /\ fs_data_len = 0 /\ fs_frame = NoFrame /\ fs_out = <<>>
    /\ fs_crosscorr = <<>> /\ fs_idx = -1
    /\ fs_recoveredPayload = <<>> /\ fs_recoveredData = <<>> /\ fs_bits = <<>>

DMIdle ==
    /\ dm_pc = "idle" /\ dm_bits = <<>> /\ dm_symbols = <<>> /\ dm_gain = 1
    /\ dm_demodulated = <<>>
    /\ dm_scheme = "BPSK" /\ dm_preamble_len = 0 /\ dm_exc = "none"

PSIdle ==
    /\ ps_pc = "idle" /\ ps_a = <<>> /\ ps_M = 1 /\ ps_L = 1 /\ ps_pulse_shape = "rrc"
    /\ ps_pad = FALSE /\ ps_y = <<>> /\ ps_baseband_len = 0

ENIdle ==
    /\ en_pc = "idle" /\ en_data = <<>> /\ en_sps = 1 /\ en_pulse_shape = "rrc"
    /\ en_L = 1 /\ en_bits = <<>> /\ en_pulse_train = <<>>
    /\ en_iq_len = 0

ObjIdle == obj_data_length = 0

Procs == {1, 2}

NoInput == [n |-> 0, err |-> 0, peak |-> 0]
NoLoop == [mu |-> 0, i_in |-> 0, i_out |-> 0, phase |-> 0, freq |-> 0]

DEIdle ==
    /\ de_pc = [p \in Procs |-> "idle"]
    /\ de_in = [p \in Procs |-> NoInput]
    /\ de_len = [p \in Procs |-> 0]
    /\ de_loop = [p \in Procs |-> NoLoop]
    /\ de_idx = [p \in Procs |-> 0]
    /\ de_result = [p \in Procs |-> <<>>]
    /\ de_stages = [p \in Procs |-> <<>>]
    /\ de_calls = [p \in Procs |-> 0]

CoreIdle == CRCIdle /\ MMIdle /\ FSIdle /\ DMIdle

IQIdle ==
    /\ iq_pc = "idle" /\ iq_I = <<>> /\ iq_Q = <<>> /\ iq_mean_period = 0
    /\ iq_I_second = <<>> /\ iq_Q_Second = <<>> /\ iq_sin_psi = "nan"
    /\ iq_result = "none"

CLIdle ==
    /\ cl_pc = "idle" /\ cl_N = 0 /\ cl_i = 0 /\ cl_phase = 0 /\ cl_freq = 0
    /\ cl_alpha = 0 /\ cl_beta = 0
    /\ cl_fn = "decode" /\ cl_out_n = 0 /\ cl_log_n = 0 /\ cl_exc = "none"

NoDecode == [frame |-> -1, len |-> 0, used |-> 0, window |-> <<>>]

OCIdle ==
    /\ oc_pc = "idle" /\ oc_last_write = "init" /\ oc_last_encode = -1
    /\ oc_last_assign = 0 /\ oc_frames = {} /\ oc_decoded = NoDecode

ExtIdle == PSIdle /\ ENIdle /\ ObjIdle /\ DEIdle /\ IQIdle /\ CLIdle /\ OCIdle

(***************************************************************************)
(* CRC scenario: a sender encodes data with a key, the channel may flip    *)
(* one bit of the codeword, the receiver checks it.  CheckRaw hands an     *)
(* arbitrary received word (of any length) to CRCcheck.                    *)
(***************************************************************************)
InitCRC ==
    /\ crc_pc = "start"
    /\ data \in Datas
    /\ key \in Keys
    /\ codeword = NoResult
    /\ flipped = -1
    /\ error = NoResultInt
    /\ crc_tail = <<>>
    /\ MMIdle /\ FSIdle /\ DMIdle /\ ExtIdle

\* codeword = encodeData(data, key)
Encode ==
    /\ crc_pc = "start"
    /\ codeword' = encodeData(data, key)
    /\ crc_pc' = "encoded"
    /\ UNCHANGED <<data, key, flipped, error, crc_tail, mmVars, fsVars, dmVars, extVars>>

\* The channel flips exactly one bit of the codeword.
FlipBit ==
    /\ crc_pc = "encoded"
    /\ codeword.exc = "none"
    /\ \E p \in 0..(Len(codeword.val) - 1) :
          /\ codeword' = Ok([codeword.val EXCEPT ![p + 1] = 1 - @])
          /\ flipped' = p
    /\ crc_pc' = "flipped"
    /\ UNCHANGED <<data, key, error, crc_tail, mmVars, fsVars, dmVars, extVars>>

\* error = CRCcheck(codeword, key)
Check ==
    /\ crc_pc \in {"encoded", "flipped"}
    /\ codeword.exc = "none"
    /\ error' = CRCcheck(codeword.val, key)
    /\ crc_pc' = "checked"
    /\ UNCHANGED <<data, key, codeword, flipped, crc_tail, mmVars, fsVars, dmVars, extVars>>

\* error = CRCcheck(data, key): the received word is not a codeword of the sender.
CheckRaw ==
    /\ crc_pc = "start"
    /\ error' = CRCcheck(data, key)
    /\ crc_pc' = "rawchecked"
    /\ UNCHANGED <<data, key, codeword, flipped, crc_tail, mmVars, fsVars, dmVars, extVars>>

\* The receiver gets the data bits followed by an arbitrary tail of
\* len(key)-1 bits: error = CRCcheck(np.append(data, tail), key)
CheckTail ==
    /\ crc_pc = "encoded"
    /\ codeword.exc = "none"
    /\ \E t \in [1..(Len(key) - 1) -> Bit] :
          /\ crc_tail' = t
          /\ error' = CRCcheck(data \o t, key)
    /\ crc_pc' = "tailchecked"
    /\ UNCHANGED <<data, key, codeword, flipped, mmVars, fsVars, dmVars, extVars>>

NextCRC == Encode \/ FlipBit \/ Check \/ CheckRaw \/ CheckTail

SpecCRC == InitCRC /\ [][NextCRC]_vars

AllZero(s) == \A i \in 1..Len(s) : s[i] = 0

\* C1: for every bit sequence d and every key k with len(k) >= 2,
\* CRCcheck(encodeData(d, k), k) returns 0.  (Stated as in the claim; the code
\* raises IndexError for the empty d with a 2-bit key.)
C1_RoundTrip ==
    (crc_pc = "checked" /\ flipped = -1 /\ Len(key) >= 2)
        => (error.exc = "none" /\ error.val = 0)

\* C2: with the 12-bit CRC_key, flipping exactly one bit of the codeword
\* encodeData(d, CRC_key) makes CRCcheck return nonzero, for every d and every
\* position of the flipped bit.
C2_SingleBitErrorCaught ==
    (crc_pc = "checked" /\ key = CRC_key /\ flipped >= 0)
        => (error.exc = "none" /\ error.val # 0)

\* C2 witness: a data bit (not a remainder bit) of a CRC_key codeword was
\* flipped and the check reported the error.
C2_Witness ==
    /\ crc_pc = "checked" /\ key = CRC_key /\ Len(data) >= 2
    /\ flipped >= 0 /\ flipped < Len(data)
    /\ error = Ok(1)

C4_FlagNeverRaises ==
    (crc_pc = "rawchecked")
        => /\ error.exc = "none"
           /\ error.val \in {0, 1}
           /\ (error.val = 0) <=> AllZero(mod2div(data, key).val)

(***************************************************************************)
(* sync.py mmcr (the same loop is inlined in SignalProcessing.decode).     *)
(*                                                                         *)
(* mu is kept as the numerator of a fraction over MuDen, which represents  *)
(* exactly every value the loop produces when the timing error mm_val is a *)
(* multiple of 1/16: 0.3 * (e/16) = 3e/160.  The samples themselves are    *)
(* abstracted: mm_val is any element of ErrVals, except in the first       *)
(* iteration, where out[0], out[1], out_rail[0] and out_rail[1] are all 0  *)
(* and the code computes exactly 0.                                        *)
(***************************************************************************)
sps == 8             \* samples per symbol
Interp == 16         \* resample_poly(testpacket, 16, 1)
MuDen == 160         \* denominator of mu
OutPad == 10         \* out = np.zeros(len(testpacket) + 10)
FirstOut == 2        \* i_out = 2

\* Timing errors mm_val, in sixteenths.
ErrVals == {-2560, -432, -16, 0, 16, 160}

\* len(samples_interpolated)
InterpLen(n) == Interp * n

\* Mutant of MMLoopCond: the bound on i_out is dropped.
MMLoopCond_NoOut == i_in + Interp < mm_len

\* Mutant of MMLoopCond: i_in+16 <= len(testpacket).
MMLoopCond_Le == i_out < mm_len /\ i_in + Interp <= mm_len

\* while i_out < len(testpacket) and i_in+16 < len(testpacket)
MMLoopCond == i_out < mm_len /\ i_in + Interp < mm_len

\* i_in*16 + int(mu*16)
MMReadIndex == i_in * Interp + ((mu * Interp) \div MuDen)

\* Mutant of MMNewMu: the increment sps is left out.
MMNewMu_NoSps(e) == mu + 3 * e

\* mu + sps + 0.3*mm_val, over MuDen
MMNewMu(e) == mu + sps * MuDen + 3 * e

\* len(out[2:i_out])
MMOutLen ==
    Max(SliceBound(i_out, mm_len + OutPad) - SliceBound(FirstOut, mm_len + OutPad), 0)

InitMM ==
    /\ mm_pc = "loop"
    /\ mm_len \in 0..MaxMMLen
    /\ mu = 0
    /\ i_in = 0
    /\ i_out = FirstOut
    /\ mm_iter = 0
    /\ mm_written = {}
    /\ mm_read = 0
    /\ mm_out_len = 0
    /\ CRCIdle /\ FSIdle /\ DMIdle /\ ExtIdle

\* One iteration of the while loop whose read of samples_interpolated succeeds.
MMStep ==
    /\ mm_pc = "loop"
    /\ MMLoopCond
    /\ MMReadIndex >= -InterpLen(mm_len) /\ MMReadIndex < InterpLen(mm_len)
    /\ \E e \in (IF i_out = FirstOut THEN {0} ELSE ErrVals) :
          /\ i_in' = i_in + (MMNewMu(e) \div MuDen)
          /\ mu' = MMNewMu(e) % MuDen
    /\ mm_read' = MMReadIndex
    /\ mm_written' = mm_written \cup {i_out}
    /\ i_out' = i_out + 1
    /\ mm_iter' = mm_iter + 1
    /\ UNCHANGED <<mm_pc, mm_len, mm_out_len, crcVars, fsVars, dmVars, extVars>>

\* An iteration whose read index is outside samples_interpolated: IndexError.
MMRaise ==
    /\ mm_pc = "loop"
    /\ MMLoopCond
    /\ ~(MMReadIndex >= -InterpLen(mm_len) /\ MMReadIndex < InterpLen(mm_len))
    /\ mm_read' = MMReadIndex
    /\ mm_pc' = "raised"
    /\ UNCHANGED <<mm_len, mu, i_in, i_out, mm_iter, mm_written, mm_out_len,
                   crcVars, fsVars, dmVars, extVars>>

\* Loop exit: out = out[2:i_out]; return.
MMExit ==
    /\ mm_pc = "loop"
    /\ ~MMLoopCond
    /\ mm_out_len' = MMOutLen
    /\ mm_pc' = "done"
    /\ UNCHANGED <<mm_len, mu, i_in, i_out, mm_iter, mm_written, mm_read,
                   crcVars, fsVars, dmVars, extVars>>

NextMM == MMStep \/ MMRaise \/ MMExit

SpecMM == InitMM /\ [][NextMM]_vars

\* C5: for an input of n samples the loop runs at most max(0, n-2)
\* iterations, i_out grows by exactly 1 per iteration, output slots 0 and 1
\* are never written, the loop is never stuck before it ends, and the returned
\* sequence has i_out - 2 elements, never more than n.
C5_TerminatesBounded ==
    /\ mm_iter <= Max(0, mm_len - 2)
    /\ i_out = FirstOut + mm_iter
    /\ mm_written = FirstOut..(i_out - 1)
    /\ mm_written \cap {0, 1} = {}
    /\ mm_pc \in {"done", "raised"} \/ ENABLED NextMM
    /\ mm_pc = "done" => (mm_out_len = i_out - 2 /\ mm_out_len <= mm_len)

\* C5 witness: the loop ran to the bound n - 2 on i_out and returned.
C5_Witness ==
    /\ mm_pc = "done" /\ mm_len > 18 /\ mm_iter = mm_len - 2
    /\ mm_out_len = mm_len - 2

\* C6 as claimed: an input shorter than 16+2 samples executes no iteration
\* and returns an empty sequence without raising.
C6_ShorterThan18Empty ==
    (mm_len < Interp + 2)
        => /\ mm_iter = 0
           /\ mm_pc # "raised"
           /\ mm_pc = "done" => mm_out_len = 0

\* C6 amended: an input shorter than 16+1 samples (at most 16) executes no
\* iteration and returns an empty sequence without raising.
C6_AtMost16Empty ==
    (mm_len < Interp + 1)
        => /\ mm_iter = 0
           /\ mm_pc # "raised"
           /\ mm_pc = "done" => mm_out_len = 0

\* C6 witness: a 16-sample input returned the empty sequence.
C6_Witness ==
    mm_pc = "done" /\ mm_len = Interp /\ mm_iter = 0 /\ mm_out_len = 0

(***************************************************************************)
(* symbol_demod_QAM.py symbol_demod, scheme 'BPSK'; symbol_mod_QAM.py      *)
(* symbol_mod, scheme 'BPSK'.  A symbol is a pair <<re, im>>.              *)
(***************************************************************************)
\* |s - r|^2 for a real reference r; np.abs(a) < np.abs(b) iff |a|^2 < |b|^2.
DistSq(s, r) == (s[1] - r) * (s[1] - r) + s[2] * s[2]

\* Mutant of BPSKDecide: the comparison is <= (a boundary symbol decodes to 0).
BPSKDecide_Le(s, channel_gain) ==
    LET reference_plus == (-1) * channel_gain
        reference_minus == -reference_plus
    IN  IF DistSq(s, reference_plus) <= DistSq(s, reference_minus) THEN 0 ELSE 1

\* The decision of the BPSK branch for one symbol.
BPSKDecide(s, channel_gain) ==
    LET reference_plus == (-1) * channel_gain
        reference_minus == -reference_plus
    IN  IF DistSq(s, reference_plus) < DistSq(s, reference_minus) THEN 0 ELSE 1

\* |s - r|^2 for a complex reference r = <<re, im>>.
DistSqC(s, r) == (s[1] - r[1]) * (s[1] - r[1]) + (s[2] - r[2]) * (s[2] - r[2])

\* The decision of the OOK branch for one symbol: s_on = 1.0*channel_gain,
\* s_off = 0*channel_gain, 1 iff |s - s_on| < |s - s_off|.
OOKDecide(s, channel_gain) ==
    LET s_on == 1 * channel_gain
        s_off == 0 * channel_gain
    IN  IF DistSq(s, s_on) < DistSq(s, s_off) THEN 1 ELSE 0

\* The level symbol_mod gives a bit pair of I_bits / Q_bits:
\* 00 -> -3, 01 -> -1, 10 -> 3, 11 -> 1.
QAMLevelMod(b1, b0) ==
    IF b1 = 0 /\ b0 = 0 THEN -3
    ELSE IF b1 = 0 /\ b0 = 1 THEN -1
    ELSE IF b1 = 1 /\ b0 = 0 THEN 3
    ELSE 1

\* Mutant of QAMLevel: natural binary order of the levels (10 -> +1, 11 -> +3).
QAMLevel_Binary(b1, b0) ==
    IF b1 = 0 THEN (IF b0 = 0 THEN -3 ELSE -1) ELSE (IF b0 = 0 THEN 1 ELSE 3)

\* The level of a bit pair in the reference table reference_q1q0i1i0 of
\* symbol_demod: 00 -> -3, 01 -> -1, 10 -> +3, 11 -> +1.
QAMLevel(b1, b0) ==
    IF b1 = 0 THEN (IF b0 = 0 THEN -3 ELSE -1) ELSE (IF b0 = 0 THEN 3 ELSE 1)

\* The label <<q1, q0, i1, i0>> whose binary value is k.
QAMLabel(k) == <<(k \div 8) % 2, (k \div 4) % 2, (k \div 2) % 2, k % 2>>

\* reference_q1q0i1i0 = level(i1 i0)*channel_gain + level(q1 q0)*1j*channel_gain
QAMReference(label, channel_gain) ==
    <<QAMLevel(label[3], label[4]) * channel_gain,
      QAMLevel(label[1], label[2]) * channel_gain>>

\* The QPSK branch.  Labels <<I, Q>> in the order the if/elif chain tries
\* them: reference_11, reference_10, reference_00, reference_01.
QPSKOrder == << <<1, 1>>, <<1, 0>>, <<0, 0>>, <<0, 1>> >>

\* reference_IQ = (+-1.0)*channel_gain + (+-1j)*channel_gain, + for bit 1
QPSKReference(label, channel_gain) ==
    <<(2 * label[1] - 1) * channel_gain, (2 * label[2] - 1) * channel_gain>>

\* The if/elif chain of the QPSK branch: the first reference in the order
\* 11, 10, 00, 01 whose distance equals the minimum of the four distances
\* appends its I bit to I_demodulated and its Q bit to Q_demodulated.
QPSKDecide(s, channel_gain) ==
    LET d(k) == DistSqC(s, QPSKReference(QPSKOrder[k], channel_gain))
        amin == CHOOSE m \in {d(k) : k \in 1..4} : \A k \in 1..4 : m <= d(k)
        first == CHOOSE k \in 1..4 : d(k) = amin /\ \A j \in 1..(k - 1) : d(j) # amin
    IN  QPSKOrder[first]

\* Mutant of QPSKDemod: the I and Q bit of every symbol are interleaved.
QPSKDemod_Interleaved(baseband_symbols, channel_gain) ==
    [i \in 1..(2 * Len(baseband_symbols)) |->
        QPSKDecide(baseband_symbols[(i + 1) \div 2], channel_gain)[2 - (i % 2)]]

\* a_demodulated = np.append(I_demodulated, Q_demodulated); return a_demodulated
QPSKDemod(baseband_symbols, channel_gain) ==
    LET I_demodulated == [i \in 1..Len(baseband_symbols) |->
                             QPSKDecide(baseband_symbols[i], channel_gain)[1]]
        Q_demodulated == [i \in 1..Len(baseband_symbols) |->
                             QPSKDecide(baseband_symbols[i], channel_gain)[2]]
    IN  I_demodulated \o Q_demodulated

\* Mutant of QAMDecide: on a tie the last reference in evaluation order wins.
QAMDecide_LastTie(s, channel_gain) ==
    LET d(k) == DistSqC(s, QAMReference(QAMLabel(k), channel_gain))
        amin == CHOOSE m \in {d(k) : k \in 0..15} : \A k \in 0..15 : m <= d(k)
        last == CHOOSE k \in 0..15 : d(k) = amin /\ \A j \in 0..(k - 1) : d(j) # amin
    IN  QAMLabel(last)

\* The if/elif chain of the QAM branch: the branches are tried in the order
\* 1111, 1110, ..., 0000 and the first whose distance equals the minimum of
\* the 16 distances appends its label (Q pair to Q_demodulated, I pair to
\* I_demodulated).
QAMDecide(s, channel_gain) ==
    LET d(k) == DistSqC(s, QAMReference(QAMLabel(k), channel_gain))
        amin == CHOOSE m \in {d(k) : k \in 0..15} : \A k \in 0..15 : m <= d(k)
        first == CHOOSE k \in 0..15 : d(k) = amin /\ \A j \in (k+1)..15 : d(j) # amin
    IN  QAMLabel(first)

\* The QAM branch: the first preamble_len symbols are sliced off and decided
\* by real part > 0.5; every other symbol gives Q[i], Q[i+1], I[i], I[i+1].
QAMDemod(baseband_symbols, channel_gain, preamble_len) ==
    LET preamble_symbols == PySlice(baseband_symbols, 0, preamble_len)
        preamble_demod == [i \in 1..Len(preamble_symbols) |->
                              IF 2 * preamble_symbols[i][1] > 1 THEN 1 ELSE 0]
        rest == PySlice(baseband_symbols, preamble_len, Len(baseband_symbols))
        a_demodulated == [i \in 1..(4 * Len(rest)) |->
                             QAMDecide(rest[((i - 1) \div 4) + 1], channel_gain)[((i - 1) % 4) + 1]]
    IN  preamble_demod \o a_demodulated

\* symbol_demod(baseband_symbols, scheme, channel_gain, preamble_len).  The
\* function ends with `return a_demodulated.astype(int)`: the BPSK and QAM
\* branches leave an ndarray in a_demodulated, the OOK branch a Python list,
\* which has no attribute astype.  The QPSK branch returns its ndarray itself.
symbol_demod(baseband_symbols, scheme, channel_gain, preamble_len) ==
    IF scheme = "BPSK"
    THEN Ok([i \in 1..Len(baseband_symbols) |-> BPSKDecide(baseband_symbols[i], channel_gain)])
    ELSE IF scheme = "QAM"
    THEN Ok(QAMDemod(baseband_symbols, channel_gain, preamble_len))
    ELSE IF scheme = "QPSK"
    THEN Ok(QPSKDemod(baseband_symbols, channel_gain))
    ELSE IF scheme = "OOK"
    THEN LET a_demodulated == [i \in 1..Len(baseband_symbols) |->
                                  OOKDecide(baseband_symbols[i], channel_gain)]
         IN  Raise("AttributeError")   \* a_demodulated is a list: no .astype
    ELSE Ok(<<>>)

\* symbol_mod(packet_bits, 'QAM', preamble_length): the preamble bits are kept
\* as symbols bit + 0j; the payload is cut to a multiple of 4 bits and every
\* group payload[i..i+3] gives Q_bits the first two and I_bits the last two
\* bits, each pair mapped 00 -> -3, 01 -> -1, 10 -> 3, 11 -> 1.
symbol_mod_QAM(packet_bits, preamble_length) ==
    LET preamble == PySlice(packet_bits, 0, preamble_length)
        payload0 == PySlice(packet_bits, preamble_length, Len(packet_bits))
        n == Len(payload0) % 4
        payload == IF n # 0 THEN PySlice(payload0, 0, -n) ELSE payload0
        preamble_symbols == [i \in 1..Len(preamble) |-> <<preamble[i], 0>>]
        data_symbols == [m \in 1..(Len(payload) \div 4) |->
                            <<QAMLevelMod(payload[4*m - 1], payload[4*m]),
                              QAMLevelMod(payload[4*m - 3], payload[4*m - 2])>>]
    IN  preamble_symbols \o data_symbols

\* symbol_mod(packet_bits, 'BPSK', preamble_length): packet_bits*2-1
symbol_mod_BPSK(packet_bits) == [i \in 1..Len(packet_bits) |-> <<packet_bits[i] * 2 - 1, 0>>]

(***************************************************************************)
(* sync.py frame_sync (the same code is inlined in SignalProcessing.decode)*)
(* on real samples.                                                        *)
(***************************************************************************)
\* SignalProcessing.preamble
Preamble60 ==
    <<0,1,0,0,0,0,1,1,0,0,0,1,0,1,0,0,1,1,1,1,0,1,0,0,0,1,1,1,0,0,
      1,0,0,1,0,1,1,0,1,1,1,0,1,1,0,0,1,1,0,1,0,1,0,1,1,1,1,1,1,0>>

Abs(x) == IF x < 0 THEN -x ELSE x

SumAbs(x) ==
    LET S[i \in 0..Len(x)] == IF i = 0 THEN 0 ELSE S[i - 1] + Abs(x[i])
    IN  S[Len(x)]

\* The rescaled samples (symbol + scale)/2*scale with scale = mean(|x|) =
\* SumAbs(x)/n, as numerators over the common positive denominator 2*n*n:
\* ((x + S/n)/2) * (S/n) = (n*x + S)*S / (2*n*n).
FSRescaleNum(x) == [i \in 1..Len(x) |-> (Len(x) * x[i] + SumAbs(x)) * SumAbs(x)]

\* np.flip
Flip(p) == [i \in 1..Len(p) |-> p[Len(p) + 1 - i]]

\* Mutant of FSMatchedFilter: the preamble is not time-reversed.
FSMatchedFilter_NoFlip(preamble) == preamble

\* matched_filter_coef = np.flip(preamble)
FSMatchedFilter(preamble) == Flip(preamble)

\* signal.fftconvolve(a, h): the full convolution, empty when an input is empty.
fftconvolve(a, h) ==
    IF Len(a) = 0 \/ Len(h) = 0 THEN <<>>
    ELSE [k \in 1..(Len(a) + Len(h) - 1) |->
            LET lo == Max(1, k - Len(h) + 1)
                hi == Min(Len(a), k)
                S[i \in (lo - 1)..hi] ==
                    IF i < lo THEN 0 ELSE S[i - 1] + a[i] * h[k - i + 1]
            IN  S[hi]]

\* np.array(c).argmax(): the first index (0-based) of the maximum; ValueError
\* on an empty array.
argmax(c) ==
    IF Len(c) = 0 THEN RaiseInt("ValueError")
    ELSE Ok((CHOOSE i \in 1..Len(c) :
                /\ \A j \in 1..Len(c) : c[j] <= c[i]
                /\ \A j \in 1..(i - 1) : c[j] < c[i]) - 1)

\* Mutant of FSWindow: the window ends one sample early (idx+data_len).
FSWindow_ShortEnd(testpacket, preamble, data_len, idx) ==
    PySlice(testpacket, idx - Len(preamble) + 1, idx + data_len)

\* recoveredPayload = testpacket[idx-len(preamble)+1 : idx+data_len+1]
FSWindow(testpacket, preamble, data_len, idx) ==
    PySlice(testpacket, idx - Len(preamble) + 1, idx + data_len + 1)

\* recoveredData = recoveredPayload[len(preamble):]
FSStrip(recoveredPayload, preamble) ==
    PySlice(recoveredPayload, Len(preamble), Len(recoveredPayload))

SampleVals == {-1, 0, 1}
SampleSeqs(hi) == UNION {[1..m -> SampleVals] : m \in 0..hi}

\* A noiseless BPSK buffer: idle (zero) samples, then the frame preamble then
\* payload as symbols 2*bit-1, then idle samples.
FrameBuffer(offset, preamble, payload, tail) ==
    Zeros(offset)
        \o [i \in 1..(Len(preamble) + Len(payload)) |-> (preamble \o payload)[i] * 2 - 1]
        \o Zeros(tail)

InitFS ==
    /\ fs_pc = "start"
    /\ \/ /\ fs_frame = NoFrame
          /\ fs_testpacket \in SampleSeqs(MaxSigLen)
          /\ fs_preamble \in BitSeqs(1, MaxPreLen)
          /\ fs_data_len \in 0..MaxPayloadLen
       \/ \E offset \in 0..MaxOffset, payload \in BitSeqs(0, MaxPayloadLen),
             tail \in 0..MaxTail :
             /\ fs_frame = [offset |-> offset, payload |-> payload]
             /\ fs_preamble = Preamble60
             /\ fs_testpacket = FrameBuffer(offset, Preamble60, payload, tail)
             /\ fs_data_len = Len(payload)
    /\ fs_out = <<>>
    /\ fs_crosscorr = <<>>
    /\ fs_idx = -1
    /\ fs_recoveredPayload = <<>>
    /\ fs_recoveredData = <<>>
    /\ fs_bits = <<>>
    /\ CRCIdle /\ MMIdle /\ DMIdle /\ ExtIdle

\* scale = np.mean(np.abs(testpacket)); out = [(symbol + scale)/2*scale ...]
FSRescale ==
    /\ fs_pc = "start"
    /\ fs_out' = FSRescaleNum(fs_testpacket)
    /\ fs_pc' = "scaled"
    /\ UNCHANGED <<fs_testpacket, fs_preamble, fs_data_len, fs_frame, fs_crosscorr,
                   fs_idx, fs_recoveredPayload, fs_recoveredData, fs_bits,
                   crcVars, mmVars, dmVars, extVars>>

\* crosscorr = signal.fftconvolve(out, matched_filter_coef)
FSCorrelate ==
    /\ fs_pc = "scaled"
    /\ fs_crosscorr' = fftconvolve(fs_out, FSMatchedFilter(fs_preamble))
    /\ fs_pc' = "correlated"
    /\ UNCHANGED <<fs_testpacket, fs_preamble, fs_data_len, fs_frame, fs_out,
                   fs_idx, fs_recoveredPayload, fs_recoveredData, fs_bits,
                   crcVars, mmVars, dmVars, extVars>>

\* idx = np.array(crosscorr).argmax()
FSArgmax ==
    /\ fs_pc = "correlated"
    /\ argmax(fs_crosscorr).exc = "none"
    /\ fs_idx' = argmax(fs_crosscorr).val
    /\ fs_pc' = "peak"
    /\ UNCHANGED <<fs_testpacket, fs_preamble, fs_data_len, fs_frame, fs_out,
                   fs_crosscorr, fs_recoveredPayload, fs_recoveredData, fs_bits,
                   crcVars, mmVars, dmVars, extVars>>

\* idx = np.array(crosscorr).argmax() raises ValueError: frame_sync raises.
FSArgmaxRaise ==
    /\ fs_pc = "correlated"
    /\ argmax(fs_crosscorr).exc # "none"
    /\ fs_pc' = "raised"
    /\ UNCHANGED <<fs_testpacket, fs_preamble, fs_data_len, fs_frame, fs_out,
                   fs_crosscorr, fs_idx, fs_recoveredPayload, fs_recoveredData,
                   fs_bits, crcVars, mmVars, dmVars, extVars>>

\* recoveredPayload, recoveredData = the window and the window less the preamble
FSSlice ==
    /\ fs_pc = "peak"
    /\ fs_recoveredPayload' = FSWindow(fs_testpacket, fs_preamble, fs_data_len, fs_idx)
    /\ fs_recoveredData' =
          FSStrip(FSWindow(fs_testpacket, fs_preamble, fs_data_len, fs_idx), fs_preamble)
    /\ fs_pc' = "done"
    /\ UNCHANGED <<fs_testpacket, fs_preamble, fs_data_len, fs_frame, fs_out,
                   fs_crosscorr, fs_idx, fs_bits, crcVars, mmVars, dmVars, extVars>>

\* demod_bits = demod.symbol_demod(recoveredData, 'BPSK', 1, len(preamble))
FSDemod ==
    /\ fs_pc = "done"
    /\ fs_bits' = symbol_demod([i \in 1..Len(fs_recoveredData) |-> <<fs_recoveredData[i], 0>>],
                               "BPSK", 1, Len(fs_preamble)).val
    /\ fs_pc' = "demod"
    /\ UNCHANGED <<fs_testpacket, fs_preamble, fs_data_len, fs_frame, fs_out,
                   fs_crosscorr, fs_idx, fs_recoveredPayload, fs_recoveredData,
                   crcVars, mmVars, dmVars, extVars>>

NextFS == FSRescale \/ FSCorrelate \/ FSArgmax \/ FSArgmaxRaise \/ FSSlice \/ FSDemod

SpecFS == InitFS /\ [][NextFS]_vars

\* C7: frame sync returns the window testpacket[idx-len(preamble)+1 :
\* idx+data_len+1] and that window less its first len(preamble) elements;
\* whenever len(preamble)-1 <= idx and idx+data_len < len(testpacket) the
\* window has exactly len(preamble)+data_len elements and the payload is
\* exactly testpacket[idx+1 .. idx+data_len].
C7_Window ==
    (fs_pc \in {"done", "demod"})
        => /\ fs_recoveredPayload =
                 PySlice(fs_testpacket, fs_idx - Len(fs_preamble) + 1,
                         fs_idx + fs_data_len + 1)
           /\ fs_recoveredData =
                 SubSeq(fs_recoveredPayload, Len(fs_preamble) + 1,
                        Len(fs_recoveredPayload))
           /\ (Len(fs_preamble) - 1 <= fs_idx /\ fs_idx + fs_data_len < Len(fs_testpacket))
                 => /\ Len(fs_recoveredPayload) = Len(fs_preamble) + fs_data_len
                    /\ Len(fs_recoveredData) = fs_data_len
                    /\ \A j \in 1..fs_data_len :
                          fs_recoveredData[j] = fs_testpacket[fs_idx + 1 + j]

\* C7 witness: an arbitrary buffer whose peak leaves room for the whole
\* window, with a non-empty payload returned.
C7_Witness ==
    /\ fs_pc = "done" /\ fs_frame = NoFrame /\ fs_data_len >= 1
    /\ Len(fs_preamble) >= 2
    /\ Len(fs_preamble) - 1 <= fs_idx /\ fs_idx + fs_data_len < Len(fs_testpacket)
    /\ Len(fs_recoveredData) = fs_data_len

C9_ShortInputNoRaise ==
    (Len(fs_testpacket) < Len(fs_preamble) + fs_data_len) => fs_pc # "raised"

(***************************************************************************)
(* Demodulator scenario: either a bit sequence is mapped to BPSK or 16-QAM *)
(* symbols by symbol_mod and demodulated, or an arbitrary received symbol  *)
(* sequence is demodulated as BPSK, OOK or 16-QAM.                         *)
(***************************************************************************)
Coords == (-MaxCoord)..MaxCoord
Symbols == Coords \X Coords
SymbolSeqs == UNION {[1..m -> Symbols] : m \in 0..MaxSymLen}
\* received preamble symbols: bit + 0j, on either side of the threshold 0.5
PreambleSymbols == {<<0, 0>>, <<1, 0>>}
\* received symbols around all sixteen 16-QAM points
WideSymbols == ((-MaxQAMCoord)..MaxQAMCoord) \X ((-MaxQAMCoord)..MaxQAMCoord)

InitDM ==
    /\ dm_gain \in 1..MaxGain
    /\ \/ /\ dm_pc = "start"
          /\ dm_scheme = "BPSK"
          /\ dm_bits \in BitSeqs(0, MaxSymLen)
          /\ dm_preamble_len = 0
          /\ dm_symbols = <<>>
       \/ /\ dm_pc = "start"
          /\ dm_scheme = "QAM"
          /\ dm_bits \in BitSeqs(0, MaxQAMBits)
          /\ dm_preamble_len \in 0..Min(MaxQAMPre, Len(dm_bits))
          /\ dm_symbols = <<>>
       \/ /\ dm_pc = "received"
          /\ dm_scheme \in {"BPSK", "OOK", "QPSK"}
          /\ dm_bits = <<>>
          /\ dm_preamble_len = 0
          /\ dm_symbols \in SymbolSeqs
       \/ /\ dm_pc = "received"
          /\ dm_scheme = "QAM"
          /\ dm_bits = <<>>
          /\ dm_preamble_len \in 0..MaxQAMPre
          /\ \E k \in 0..dm_preamble_len, m \in 0..1 :
                \E pre \in [1..k -> PreambleSymbols], rest \in [1..m -> WideSymbols] :
                   /\ m = 1 => k = dm_preamble_len
                   /\ dm_symbols = pre \o rest
    /\ dm_demodulated = <<>>
    /\ dm_exc = "none"
    /\ CRCIdle /\ MMIdle /\ FSIdle /\ ExtIdle

\* baseband_symbols = symbol_mod(packet_bits, scheme, preamble_length)
DMModulate ==
    /\ dm_pc = "start"
    /\ dm_symbols' = IF dm_scheme = "QAM"
                     THEN symbol_mod_QAM(dm_bits, dm_preamble_len)
                     ELSE symbol_mod_BPSK(dm_bits)
    /\ dm_pc' = "modulated"
    /\ UNCHANGED <<dm_bits, dm_gain, dm_demodulated, dm_scheme, dm_preamble_len,
                   dm_exc, crcVars, mmVars, fsVars, extVars>>

\* a_demodulated = symbol_demod(baseband_symbols, scheme, channel_gain, preamble_len)
DMDemod ==
    /\ dm_pc \in {"modulated", "received"}
    /\ LET r == symbol_demod(dm_symbols, dm_scheme, dm_gain, dm_preamble_len)
       IN  /\ r.exc = "none"
           /\ dm_demodulated' = r.val
    /\ dm_pc' = IF dm_pc = "modulated" THEN "roundtrip" ELSE "done"
    /\ UNCHANGED <<dm_bits, dm_symbols, dm_gain, dm_scheme, dm_preamble_len,
                   dm_exc, crcVars, mmVars, fsVars, extVars>>

\* The call of symbol_demod raises: no value is returned.
DMDemodRaise ==
    /\ dm_pc \in {"modulated", "received"}
    /\ LET r == symbol_demod(dm_symbols, dm_scheme, dm_gain, dm_preamble_len)
       IN  /\ r.exc # "none"
           /\ dm_exc' = r.exc
    /\ dm_pc' = "raised"
    /\ UNCHANGED <<dm_bits, dm_symbols, dm_gain, dm_demodulated, dm_scheme,
                   dm_preamble_len, crcVars, mmVars, fsVars, extVars>>

NextDM == DMModulate \/ DMDemod \/ DMDemodRaise

SpecDM == InitDM /\ [][NextDM]_vars

\* C10: BPSK demodulation emits exactly one bit per symbol; for
\* channel_gain > 0 the bit is 0 iff Re(symbol) < 0 (the symbol is strictly
\* nearer -channel_gain) and 1 otherwise, a symbol on the boundary I=0
\* included; and demodulating the mapping 2*bit-1 of a bit sequence returns
\* that bit sequence.
C10_BPSKBoundary ==
    /\ (dm_scheme = "BPSK" /\ dm_pc \in {"done", "roundtrip"})
          => /\ Len(dm_demodulated) = Len(dm_symbols)
             /\ \A i \in 1..Len(dm_symbols) :
                   dm_demodulated[i] = (IF dm_symbols[i][1] < 0 THEN 0 ELSE 1)
    /\ (dm_scheme = "BPSK" /\ dm_pc = "roundtrip") => dm_demodulated = dm_bits

\* C10 witness: a received sequence with a symbol on the boundary (I = 0,
\* Q # 0) decoded to 1 and a symbol left of it decoded to 0.
C10_Witness ==
    /\ dm_scheme = "BPSK" /\ dm_pc = "done" /\ Len(dm_symbols) = 2
    /\ dm_symbols[1][1] = 0 /\ dm_symbols[1][2] # 0 /\ dm_demodulated[1] = 1
    /\ dm_symbols[2][1] < 0 /\ dm_demodulated[2] = 0

\* C11: the 16-QAM mapping round-trips per symbol.  With channel_gain 1,
\* every 4-bit group q1,q0,i1,i0 of the payload is given the point whose I
\* and Q levels follow 00 -> -3, 01 -> -1, 11 -> +1, 10 -> +3 (I from i1,i0,
\* Q from q1,q0), and symbol_demod decodes that point back to q1,q0,i1,i0 in
\* that order, four bits per symbol, after the preamble bits.
C11_QAMRoundTrip ==
    (dm_scheme = "QAM" /\ dm_pc = "roundtrip" /\ dm_gain = 1)
       => LET C11_GrayLevel(b1, b0) ==
                  IF <<b1, b0>> = <<0, 0>> THEN -3
                  ELSE IF <<b1, b0>> = <<0, 1>> THEN -1
                  ELSE IF <<b1, b0>> = <<1, 1>> THEN 1
                  ELSE 3
              pre == dm_preamble_len
              groups == (Len(dm_bits) - pre) \div 4
          IN  /\ Len(dm_symbols) = pre + groups
              /\ Len(dm_demodulated) = pre + 4 * groups
              /\ \A m \in 1..groups :
                    LET q1 == dm_bits[pre + 4*m - 3]
                        q0 == dm_bits[pre + 4*m - 2]
                        i1 == dm_bits[pre + 4*m - 1]
                        i0 == dm_bits[pre + 4*m]
                    IN  /\ dm_symbols[pre + m] = <<C11_GrayLevel(i1, i0), C11_GrayLevel(q1, q0)>>
                        /\ SubSeq(dm_demodulated, pre + 4*m - 3, pre + 4*m) = <<q1, q0, i1, i0>>

\* C11 witness: a packet of two 4-bit groups, 1,0,1,1 (point +1 +3j) and
\* 0,1,1,0 (point +3 -1j), has been modulated and demodulated at gain 1.
C11_Witness ==
    /\ dm_scheme = "QAM" /\ dm_pc = "roundtrip" /\ dm_gain = 1
    /\ dm_preamble_len = 0
    /\ dm_bits = <<1, 0, 1, 1, 0, 1, 1, 0>>
    /\ dm_symbols = << <<1, 3>>, <<3, -1>> >>
    /\ dm_demodulated = dm_bits

\* C12: for scheme 'OOK' symbol_demod returns a bit sequence with exactly
\* one bit per input symbol, the bit being 1 when the symbol is strictly
\* nearer the on level 1.0*channel_gain than the off level 0, and 0
\* otherwise.  (Stated as in the claim; every OOK call ends in
\* AttributeError at the final .astype of a Python list.)
C12_OOKBits ==
    (dm_scheme = "OOK" /\ dm_pc \in {"done", "raised"})
       => /\ dm_pc = "done"
          /\ Len(dm_demodulated) = Len(dm_symbols)
          /\ \A i \in 1..Len(dm_symbols) :
                dm_demodulated[i] =
                   (IF DistSq(dm_symbols[i], dm_gain) < DistSq(dm_symbols[i], 0)
                    THEN 1 ELSE 0)

(***************************************************************************)
(* pulse_shaping.py pulse_shaping.  The filter taps are irrational, so of  *)
(* the 'rrc' waveform only the number of samples is kept.                  *)
(***************************************************************************)
\* The number of samples of signal.upfirdn([1], x, up) for len(x) = in_len.
\* SciPy before 1.4 pads the output to in_len*up samples, later releases
\* return (in_len - 1)*up + 1; pad tells which library is installed.
upfirdn_len(in_len, up, pad) ==
    IF pad THEN in_len * up ELSE (in_len - 1) * up + 1

\* signal.upfirdn([1], a, M): a[k] at index k*M, zeros between.
upfirdn(a, M, pad) ==
    [k \in 1..upfirdn_len(Len(a), M, pad) |->
        IF (k - 1) % M = 0 THEN a[((k - 1) \div M) + 1] ELSE 0]

\* len(h) for time, h = rrcosfilter(N, alpha, Ts, Fs): h_rrc = np.zeros(N).
rrcosfilter_len(N) == N

\* len(np.convolve(a, h)) for non-empty a and h (mode 'full').
convolve_len(a_len, h_len) == a_len + h_len - 1

\* len(baseband) of pulse_shaping(a, M, fs, pulse_shape, alpha, L):
\* 'rrc' convolves a (not the upsampled y) with the N = L*M taps,
\* 'rect' returns y.
pulse_shaping_len(a, M, pulse_shape, L, pad) ==
    LET y == upfirdn(a, M, pad)
        N == L * M
    IN  IF pulse_shape = "rrc" THEN convolve_len(Len(a), rrcosfilter_len(N))
        ELSE Len(y)

PSSymbolSeqs == UNION {[1..m -> {-1, 1}] : m \in 1..MaxPSLen}

InitPS ==
    /\ ps_pc = "start"
    /\ ps_a \in PSSymbolSeqs
    /\ ps_M \in 1..MaxPSM
    /\ ps_L \in 1..MaxSpan
    /\ ps_pulse_shape \in {"rrc", "rect"}
    /\ ps_pad \in BOOLEAN
    /\ ps_y = <<>>
    /\ ps_baseband_len = 0
    /\ CoreIdle /\ ENIdle /\ ObjIdle /\ DEIdle /\ IQIdle /\ CLIdle /\ OCIdle

\* y = signal.upfirdn([1], a, M)
PSUpsample ==
    /\ ps_pc = "start"
    /\ ps_y' = upfirdn(ps_a, ps_M, ps_pad)
    /\ ps_pc' = "upsampled"
    /\ UNCHANGED <<ps_a, ps_M, ps_L, ps_pulse_shape, ps_pad, ps_baseband_len,
                   coreVars, enVars, objVars, deVars,
                   iqVars, clVars, ocVars>>

\* if pulse_shape == 'rrc': ... baseband = np.convolve(a, h); return baseband
PSShapeRRC ==
    /\ ps_pc = "upsampled" /\ ps_pulse_shape = "rrc"
    /\ ps_baseband_len' = pulse_shaping_len(ps_a, ps_M, "rrc", ps_L, ps_pad)
    /\ ps_pc' = "done"
    /\ UNCHANGED <<ps_a, ps_M, ps_L, ps_pulse_shape, ps_pad, ps_y, coreVars, enVars, objVars, deVars,
                   iqVars, clVars, ocVars>>

\* if pulse_shape == 'rect': baseband = y; return baseband
PSShapeRect ==
    /\ ps_pc = "upsampled" /\ ps_pulse_shape = "rect"
    /\ ps_baseband_len' = Len(ps_y)
    /\ ps_pc' = "done"
    /\ UNCHANGED <<ps_a, ps_M, ps_L, ps_pulse_shape, ps_pad, ps_y, coreVars, enVars, objVars, deVars,
                   iqVars, clVars, ocVars>>

NextPS == PSUpsample \/ PSShapeRRC \/ PSShapeRect

SpecPS == InitPS /\ [][NextPS]_vars

\* C13: for a symbol sequence of length n, samples-per-symbol sps and span L,
\* pulse_shaping returns exactly n*sps + L*sps - 1 samples for 'rrc' and
\* exactly n*sps samples for 'rect'.  (Stated as in the claim; the 'rrc'
\* branch convolves the symbols themselves and returns n + L*sps - 1.)
C13_OutputLength ==
    (ps_pc = "done")
       => ps_baseband_len = (IF ps_pulse_shape = "rrc"
                             THEN Len(ps_a) * ps_M + ps_L * ps_M - 1
                             ELSE Len(ps_a) * ps_M)

(***************************************************************************)
(* func.py SignalProcessing.encode.                                        *)
(***************************************************************************)
\* The loop of encode: for every bit a pulse of self.sps zeros whose first
\* sample is bit*2-1, concatenated.
PulseTrain(bits, sps_) ==
    [k \in 1..(Len(bits) * sps_) |->
        IF (k - 1) % sps_ = 0 THEN bits[((k - 1) \div sps_) + 1] * 2 - 1 ELSE 0]

InitEN ==
    /\ en_pc = "start"
    /\ en_data \in BitSeqs(0, MaxEncData)
    /\ en_sps \in 1..MaxEncSps
    /\ en_pulse_shape \in {"rrc", "rect"}
    /\ en_L \in 1..MaxSpan
    /\ obj_data_length \in 0..MaxEncData
    /\ en_bits = <<>>
    /\ en_pulse_train = <<>>
    /\ en_iq_len = 0
    /\ CoreIdle /\ PSIdle /\ DEIdle /\ IQIdle /\ CLIdle /\ OCIdle

\* self.data_length = len(data); data_encoded = CRC.encodeData(data,
\* self.CRC_key); bits = np.append(self.preamble, data_encoded)
\* (with the 12-bit key mod2div never runs out of bits, so nothing raises)
ENFrame ==
    /\ en_pc = "start"
    /\ obj_data_length' = Len(en_data)
    /\ LET data_encoded == encodeData(en_data, CRC_key)
       IN  /\ data_encoded.exc = "none"
           /\ en_bits' = Preamble60 \o data_encoded.val
    /\ en_pc' = "framed"
    /\ UNCHANGED <<en_data, en_sps, en_pulse_shape, en_L, en_pulse_train, en_iq_len,
                   coreVars, psVars, deVars, iqVars, clVars, ocVars>>

\* for bit in bits: pulse = np.zeros(self.sps); pulse[0] = bit*2-1; ...
ENPulseTrain ==
    /\ en_pc = "framed"
    /\ en_pulse_train' = PulseTrain(en_bits, en_sps)
    /\ en_pc' = "train"
    /\ UNCHANGED <<en_data, en_sps, en_pulse_shape, en_L, en_bits, en_iq_len,
                   coreVars, psVars, objVars, deVars, iqVars, clVars, ocVars>>

\* iq_data = pulse_shaping.pulse_shaping(pulse_train, self.sps, ...); return iq_data
ENShape ==
    /\ en_pc = "train"
    /\ \E pad \in BOOLEAN :
          en_iq_len' = pulse_shaping_len(en_pulse_train, en_sps, en_pulse_shape, en_L, pad)
    /\ en_pc' = "done"
    /\ UNCHANGED <<en_data, en_sps, en_pulse_shape, en_L, en_bits, en_pulse_train,
                   coreVars, psVars, objVars, deVars, iqVars, clVars, ocVars>>

NextEN == ENFrame \/ ENPulseTrain \/ ENShape

SpecEN == InitEN /\ [][NextEN]_vars

\* C14: encode(data) builds the bit frame as the 60-bit preamble, then data,
\* then len(CRC_key)-1 remainder bits, in that order; its pulse train has
\* exactly sps samples per frame bit, with value 2*bit-1 at each index that
\* is a multiple of sps and 0 elsewhere.  (Stated as in the claim; for the
\* empty data the code appends len(CRC_key)-2 remainder bits.)
C14_EncodeFrame ==
    (en_pc \in {"train", "done"})
       => /\ Len(en_bits) = 60 + Len(en_data) + (Len(CRC_key) - 1)
          /\ SubSeq(en_bits, 1, 60) = Preamble60
          /\ SubSeq(en_bits, 61, 60 + Len(en_data)) = en_data
          /\ Len(en_pulse_train) = en_sps * Len(en_bits)
          /\ \A k \in 0..(Len(en_pulse_train) - 1) :
                en_pulse_train[k + 1] =
                   (IF k % en_sps = 0 THEN 2 * en_bits[(k \div en_sps) + 1] - 1 ELSE 0)

(***************************************************************************)
(* func.py SignalProcessing.decode, run by two threads on one object.  The *)
(* samples are abstracted: a call's input is its length n, the timing      *)
(* error err its samples produce in every loop iteration, and the position *)
(* peak of its correlation maximum; the returned bits are kept as the      *)
(* indices of the timing-recovered samples they are decided from.          *)
(***************************************************************************)
DelayTaps == 21      \* N = 21 taps of the fractional delay filter

DEErrVals == {0, 16}
DEInputs ==
    [n : {MinDecLen, MaxDecLen}, err : DEErrVals,
     peak : (Len(Preamble60) - 1)..(Len(Preamble60) - 1 + MaxDecOffset)]

\* Mutant of DEFrame: the loop state of every call lives in one shared cell
\* (as if it were stored on the object).
DEFrame_Shared(p) == 1

\* The frame of locals of the call of thread p: mu, i_in, i_out, phase and
\* freq are local variables of decode.
DEFrame(p) == p

\* One iteration of the timing loop of decode on the loop state st; the
\* first iteration has mm_val = 0 (out[0], out[1], out_rail[0], out_rail[1]
\* are zero).
DETimingStep(st, err) ==
    LET e == IF st.i_out = FirstOut THEN 0 ELSE err
        new_mu == st.mu + sps * MuDen + 3 * e
    IN  [st EXCEPT !.mu = new_mu % MuDen,
                   !.i_in = st.i_in + (new_mu \div MuDen),
                   !.i_out = st.i_out + 1]

\* while i_out < len(testpacket) and i_in+16 < len(testpacket): ...
RECURSIVE DETimingLoop(_, _, _)
DETimingLoop(st, len, err) ==
    IF st.i_out < len /\ st.i_in + Interp < len
    THEN DETimingLoop(DETimingStep(st, err), len, err)
    ELSE st

\* idx = np.array(crosscorr).argmax(): crosscorr has len(out) + 60 - 1
\* entries, the maximum is where the input has its correlation peak.
DEArgmax(len, peak) == Min(peak, len + Len(Preamble60) - 2)

\* recoveredPayload = testpacket[idx - len(self.preamble) + 1 :
\*                                idx + data_encoded_length + 1];
\* recoveredData = recoveredPayload[len(self.preamble):]
DERecover(len, idx, data_length) ==
    LET testpacket == [i \in 1..len |-> i]
        data_encoded_length == data_length + Len(CRC_key) - 1
        recoveredPayload == PySlice(testpacket, idx - Len(Preamble60) + 1,
                                    idx + data_encoded_length + 1)
    IN  PySlice(recoveredPayload, Len(Preamble60), Len(recoveredPayload))

\* decode run alone on input inp with self.data_length = data_length: the
\* bits it returns, or the exception it ends with (CRCcheck raises
\* IndexError on an empty bit sequence).
DecodeAlone(inp, data_length) ==
    LET len1 == inp.n + DelayTaps - 1
        st == DETimingLoop([NoLoop EXCEPT !.i_out = FirstOut], len1, inp.err)
        len2 == st.i_out - FirstOut
        idx == DEArgmax(len2, inp.peak)
        demod_bits == DERecover(len2, idx, data_length)
    IN  IF demod_bits = <<>> THEN Raise("IndexError") ELSE Ok(demod_bits)

InitDE ==
    /\ obj_data_length \in 0..MaxDecData
    /\ de_pc = [p \in Procs |-> "delay"]
    /\ de_in \in [Procs -> DEInputs]
    /\ de_len = [p \in Procs |-> de_in[p].n]
    /\ de_loop = [p \in Procs |-> NoLoop]
    /\ de_idx = [p \in Procs |-> 0]
    /\ de_result = [p \in Procs |-> <<>>]
    /\ de_stages = [p \in Procs |-> <<>>]
    /\ de_calls = [p \in Procs |-> 1]
    /\ CoreIdle /\ PSIdle /\ ENIdle /\ IQIdle /\ CLIdle /\ OCIdle

\* The call of thread p moves from position from to position to; a stage
\* that starts here is added to the stages the call has run.
DEStage(p, from, to, stage) ==
    /\ de_pc[p] = from
    /\ de_pc' = [de_pc EXCEPT ![p] = to]
    /\ de_stages' = IF stage = "" THEN de_stages
                    ELSE [de_stages EXCEPT ![p] = Append(@, stage)]

\* N = 21; h = np.sinc(n - delay) ...; testpacket = np.convolve(testpacket, h)
DEDelay(p) ==
    /\ DEStage(p, "delay", "shift", "FractionalDelay")
    /\ de_len' = [de_len EXCEPT ![p] = convolve_len(@, DelayTaps)]
    /\ UNCHANGED <<de_in, de_loop, de_idx, de_result, de_calls, coreVars, psVars,
                   enVars, objVars, iqVars, clVars, ocVars>>

\* testpacket = testpacket * np.exp(1j * 2 * np.pi * self.fo * t)
DEFreqShift(p) ==
    /\ DEStage(p, "shift", "timing_init", "FrequencyOffset")
    /\ UNCHANGED <<de_in, de_len, de_loop, de_idx, de_result, de_calls, coreVars,
                   psVars, enVars, objVars, iqVars, clVars, ocVars>>

\* samples_interpolated = ...; mu = 0; i_in = 0; i_out = 2
DETimingInit(p) ==
    /\ DEStage(p, "timing_init", "timing_loop", "TimingRecovery")
    /\ de_loop' = [de_loop EXCEPT ![DEFrame(p)] =
                      [@ EXCEPT !.mu = 0, !.i_in = 0, !.i_out = FirstOut]]
    /\ UNCHANGED <<de_in, de_len, de_idx, de_result, de_calls, coreVars, psVars,
                   enVars, objVars, iqVars, clVars, ocVars>>

\* the while loop of the timing recovery
DETimingRun(p) ==
    /\ DEStage(p, "timing_loop", "timing_exit", "")
    /\ de_loop' = [de_loop EXCEPT ![DEFrame(p)] =
                      DETimingLoop(@, de_len[p], de_in[p].err)]
    /\ UNCHANGED <<de_in, de_len, de_idx, de_result, de_calls, coreVars, psVars,
                   enVars, objVars, iqVars, clVars, ocVars>>

\* out = out[2:i_out]; testpacket = out
DETimingExit(p) ==
    /\ DEStage(p, "timing_exit", "coarse", "")
    /\ de_len' = [de_len EXCEPT ![p] = Max(0, de_loop[DEFrame(p)].i_out - FirstOut)]
    /\ UNCHANGED <<de_in, de_loop, de_idx, de_result, de_calls, coreVars, psVars,
                   enVars, objVars, iqVars, clVars, ocVars>>

\* fft_samples = testpacket**2 ... testpacket = testpacket * np.exp(-1j*...)
DECoarse(p) ==
    /\ DEStage(p, "coarse", "costas_init", "CoarseFreq")
    /\ UNCHANGED <<de_in, de_len, de_loop, de_idx, de_result, de_calls, coreVars,
                   psVars, enVars, objVars, iqVars, clVars, ocVars>>

\* N = len(testpacket); phase = 0; freq = 0
DECostasInit(p) ==
    /\ DEStage(p, "costas_init", "costas_loop", "Costas")
    /\ de_loop' = [de_loop EXCEPT ![DEFrame(p)] = [@ EXCEPT !.phase = 0, !.freq = 0]]
    /\ UNCHANGED <<de_in, de_len, de_idx, de_result, de_calls, coreVars, psVars,
                   enVars, objVars, iqVars, clVars, ocVars>>

\* for i in range(N): ...; testpacket = out  (phase and freq end at values
\* the samples determine; the timing error of the input stands for them)
DECostasRun(p) ==
    /\ DEStage(p, "costas_loop", "iq", "")
    /\ de_loop' = [de_loop EXCEPT ![DEFrame(p)] =
                      [@ EXCEPT !.phase = de_in[p].err, !.freq = de_in[p].err]]
    /\ UNCHANGED <<de_in, de_len, de_idx, de_result, de_calls, coreVars, psVars,
                   enVars, objVars, iqVars, clVars, ocVars>>

\* testpacket = IQ_Imbalance_Correct(testpacket, mean_period=len(testpacket)//10)
DEIQ(p) ==
    /\ DEStage(p, "iq", "framesync", "IQImbalance")
    /\ UNCHANGED <<de_in, de_len, de_loop, de_idx, de_result, de_calls, coreVars,
                   psVars, enVars, objVars, iqVars, clVars, ocVars>>

\* crosscorr = ...; idx = ...argmax(); recoveredPayload = ...; recoveredData = ...
DEFrameSync(p) ==
    /\ DEStage(p, "framesync", "demod", "FrameSync")
    /\ de_idx' = [de_idx EXCEPT ![p] = DEArgmax(de_len[p], de_in[p].peak)]
    /\ de_result' = [de_result EXCEPT ![p] =
                        DERecover(de_len[p], DEArgmax(de_len[p], de_in[p].peak),
                                  obj_data_length)]
    /\ UNCHANGED <<de_in, de_len, de_loop, de_calls, coreVars, psVars, enVars, objVars, iqVars, clVars, ocVars>>

\* demod_bits = demod.symbol_demod(recoveredData, self.scheme, 1, ...): one
\* bit per sample of recoveredData for the scheme 'BPSK'
DEDemod(p) ==
    /\ DEStage(p, "demod", "crc", "Demod")
    /\ UNCHANGED <<de_in, de_len, de_loop, de_idx, de_result, de_calls, coreVars,
                   psVars, enVars, objVars, iqVars, clVars, ocVars>>

\* error = CRC.CRCcheck(demod_bits, self.CRC_key); return demod_bits
DECRC(p) ==
    /\ de_result[p] # <<>>
    /\ DEStage(p, "crc", "returned", "CRCCheck")
    /\ de_loop' = [de_loop EXCEPT ![DEFrame(p)] = NoLoop]
    /\ UNCHANGED <<de_in, de_len, de_idx, de_result, de_calls, coreVars, psVars,
                   enVars, objVars, iqVars, clVars, ocVars>>

\* CRCcheck raises IndexError on the empty demod_bits (mod2div reads tmp[0])
DECRCRaise(p) ==
    /\ de_result[p] = <<>>
    /\ DEStage(p, "crc", "raised", "CRCCheck")
    /\ de_loop' = [de_loop EXCEPT ![DEFrame(p)] = NoLoop]
    /\ UNCHANGED <<de_in, de_len, de_idx, de_result, de_calls, coreVars, psVars,
                   enVars, objVars, iqVars, clVars, ocVars>>

\* the thread calls decode again, on another input
DECall(p) ==
    /\ de_pc[p] \in {"returned", "raised"}
    /\ de_calls[p] < MaxCalls
    /\ \E inp \in DEInputs :
          /\ de_in' = [de_in EXCEPT ![p] = inp]
          /\ de_len' = [de_len EXCEPT ![p] = inp.n]
    /\ de_pc' = [de_pc EXCEPT ![p] = "delay"]
    /\ de_idx' = [de_idx EXCEPT ![p] = 0]
    /\ de_result' = [de_result EXCEPT ![p] = <<>>]
    /\ de_stages' = [de_stages EXCEPT ![p] = <<>>]
    /\ de_calls' = [de_calls EXCEPT ![p] = @ + 1]
    /\ UNCHANGED <<de_loop, coreVars, psVars, enVars, objVars, iqVars, clVars, ocVars>>

NextDE ==
    \E p \in Procs :
       \/ DEDelay(p) \/ DEFreqShift(p) \/ DETimingInit(p) \/ DETimingRun(p)
       \/ DETimingExit(p) \/ DECoarse(p) \/ DECostasInit(p) \/ DECostasRun(p)
       \/ DEIQ(p) \/ DEFrameSync(p) \/ DEDemod(p) \/ DECRC(p) \/ DECRCRaise(p)
       \/ DECall(p)

SpecDE == InitDE /\ [][NextDE]_vars

\* Is a a prefix of b?
IsPrefix(a, b) == Len(a) <= Len(b) /\ SubSeq(b, 1, Len(a)) = a

\* C15: the receive path of decode consists of exactly the stages Timing
\* Recovery, Coarse Frequency Correction, Costas loop, IQ Imbalance
\* Correction, Frame Sync, Demodulation and CRC check, in that order; no
\* channel-impairment step (fractional delay, frequency offset) is applied
\* to decode's input.  (Stated as in the claim; decode starts with both.)
C15_ReceivePathStages ==
    \A p \in Procs :
       /\ IsPrefix(de_stages[p], <<"TimingRecovery", "CoarseFreq", "Costas",
                                   "IQImbalance", "FrameSync", "Demod", "CRCCheck">>)
       /\ (de_pc[p] \in {"returned", "raised"}) => Len(de_stages[p]) = 7

\* C17: concurrent decode calls share no mutable state.  decode writes no
\* field of the SignalProcessing object; it initialises its loop state
\* afresh on every call (mu = 0, i_in = 0, i_out = 2 before the timing loop,
\* phase = 0, freq = 0 before the Costas loop); and under every interleaving
\* of the calls of two threads on the same object each call returns the
\* bits (or ends with the exception) it returns when run alone.
C17_NoSharedMutableState ==
    /\ [][obj_data_length' = obj_data_length]_vars
    /\ [](\A p \in Procs :
            /\ (de_pc[p] = "timing_loop")
                  => (de_loop[p].mu = 0 /\ de_loop[p].i_in = 0 /\ de_loop[p].i_out = 2)
            /\ (de_pc[p] = "costas_loop")
                  => (de_loop[p].phase = 0 /\ de_loop[p].freq = 0)
            /\ (de_pc[p] = "returned")
                  => DecodeAlone(de_in[p], obj_data_length) = Ok(de_result[p])
            /\ (de_pc[p] = "raised")
                  => DecodeAlone(de_in[p], obj_data_length) = Raise("IndexError"))

\* C17 witness: both threads have returned from their second decode call,
\* on inputs of the same length that differ in timing error and peak, each
\* with a non-empty bit sequence.
C17_Witness ==
    /\ \A p \in Procs : de_pc[p] = "returned" /\ de_calls[p] = MaxCalls
    /\ de_in[1].n = MaxDecLen /\ de_in[2].n = MaxDecLen
    /\ de_in[1].err # de_in[2].err
    /\ de_result[1] # <<>> /\ de_result[2] # <<>>
    /\ de_result[1] # de_result[2]

(***************************************************************************)
(* IQ_Imbalance_correction.py Mean and IQ_Imbalance_Correct, in exact      *)
(* arithmetic: a mean is a pair <<sum, num>>, I_second and Q_Second are    *)
(* numerators over Factorial(len(packet)).                                 *)
(***************************************************************************)
RECURSIVE Factorial(_)
Factorial(n) == IF n <= 1 THEN 1 ELSE n * Factorial(n - 1)

RECURSIVE SumSeq(_)
SumSeq(x) == IF x = <<>> THEN 0 ELSE Head(x) + SumSeq(Tail(x))

\* The inner loop of Mean from step i on, for the 0-based index: the left
\* and the right neighbour at distance i are added while they exist, and
\* the loop breaks when neither does.
RECURSIVE MeanLoop(_, _, _, _, _, _)
MeanLoop(array, index, i, period, num, sum) ==
    IF i > period THEN <<sum, num>>
    ELSE LET left == index - i >= 0
             right == index + i < Len(array)
             num1 == num + (IF left THEN 1 ELSE 0) + (IF right THEN 1 ELSE 0)
             sum1 == sum + (IF left THEN array[index - i + 1] ELSE 0)
                         + (IF right THEN array[index + i + 1] ELSE 0)
         IN  IF ~left /\ ~right THEN <<sum, num>>
             ELSE MeanLoop(array, index, i + 1, period, num1, sum1)

\* Mutant of Mean: every entry is the mean of the whole array (the window
\* does not follow the index).
Mean_WholeArray(array, period) ==
    [k \in 1..Len(array) |-> <<SumSeq(array), Len(array)>>]

\* Mean(array, period): means[index] = sum / num
Mean(array, period) ==
    [k \in 1..Len(array) |-> MeanLoop(array, k - 1, 1, period, 1, array[k])]

\* I_second = I - BI (and Q_Second = Q - BQ), times Factorial(len)
IQCentre(x, period) ==
    LET F == Factorial(Len(x))
        B == Mean(x, period)
    IN  [k \in 1..Len(x) |-> F * x[k] - (F \div B[k][2]) * B[k][1]]

\* a = sqrt(2*mean(I_second^2)); sin_psi = (2/a)*mean(I_second*Q_Second),
\* so sin_psi^2 = 2*(sum X*Y)^2 / (n * F^2 * sum X^2) for the numerators X, Y.
\* a = 0 gives 2/a = inf and sin_psi = inf*0 = nan.
IQSinPsi(X, Y) ==
    LET n == Len(X)
        F == Factorial(n)
        SXX == SumSeq([k \in 1..n |-> X[k] * X[k]])
        SXY == SumSeq([k \in 1..n |-> X[k] * Y[k]])
    IN  IF SXX = 0 THEN "nan"
        ELSE IF 2 * SXY * SXY > n * F * F * SXX THEN "out"
        ELSE IF 2 * SXY * SXY = n * F * F * SXX THEN "one"
        ELSE "in"

\* cos_psi = np.sqrt(1 - sin_psi^2); C = -sin_psi/(a*cos_psi); D = 1/cos_psi;
\* Q_final = C*I + D*Q.  np.sqrt of a negative number is nan (a warning, no
\* exception), 1/0 is inf.
IQPacket(sin_psi) ==
    IF sin_psi \in {"nan", "out"} THEN "nan"
    ELSE IF sin_psi = "one" THEN "inf"
    ELSE "finite"

IQVals == {-1, 0, 1}
IQSeqs(n) == [1..n -> IQVals]

InitIQ ==
    /\ iq_pc = "start"
    /\ \E n \in 1..MaxIQLen : iq_I \in IQSeqs(n) /\ iq_Q \in IQSeqs(n)
    /\ iq_mean_period \in 0..MaxIQPeriod
    /\ iq_I_second = <<>> /\ iq_Q_Second = <<>>
    /\ iq_sin_psi = "nan"
    /\ iq_result = "none"
    /\ CoreIdle /\ PSIdle /\ ENIdle /\ ObjIdle /\ DEIdle /\ CLIdle /\ OCIdle

\* BI = Mean(I, mean_period); BQ = ...; I_second = I - BI; Q_Second = Q - BQ
IQRemoveMean ==
    /\ iq_pc = "start"
    /\ iq_I_second' = IQCentre(iq_I, iq_mean_period)
    /\ iq_Q_Second' = IQCentre(iq_Q, iq_mean_period)
    /\ iq_pc' = "centred"
    /\ UNCHANGED <<iq_I, iq_Q, iq_mean_period, iq_sin_psi, iq_result, coreVars,
                   psVars, enVars, objVars, deVars, clVars, ocVars>>

\* a = ...; sin_psi = ...
IQEstimate ==
    /\ iq_pc = "centred"
    /\ iq_sin_psi' = IQSinPsi(iq_I_second, iq_Q_Second)
    /\ iq_pc' = "estimated"
    /\ UNCHANGED <<iq_I, iq_Q, iq_mean_period, iq_I_second, iq_Q_Second, iq_result,
                   coreVars, psVars, enVars, objVars, deVars, clVars, ocVars>>

\* cos_psi = ...; A, C, D; return I_final + 1j * Q_final
IQReturn ==
    /\ iq_pc = "estimated"
    /\ iq_result' = IQPacket(iq_sin_psi)
    /\ iq_pc' = "returned"
    /\ UNCHANGED <<iq_I, iq_Q, iq_mean_period, iq_I_second, iq_Q_Second, iq_sin_psi,
                   coreVars, psVars, enVars, objVars, deVars, clVars, ocVars>>

NextIQ == IQRemoveMean \/ IQEstimate \/ IQReturn

SpecIQ == InitIQ /\ [][NextIQ]_vars

\* C16: when the estimated sin_psi falls outside [-1, 1],
\* IQ_Imbalance_Correct surfaces an explicit error condition and does not
\* return a NaN packet.  (Stated as in the claim; the code has no range
\* check, never raises, and returns the packet whose Q branch is NaN.)
C16_SinPsiOutOfRange ==
    (iq_pc = "returned" /\ iq_sin_psi = "out") => iq_result = "error"

\* C18: mod2div computes the canonical modulo-2 remainder: on a working
\* window whose leading bit is 0 it XORs with an all-zero divisor (a pure
\* shift), so for every dividend and key the remainder, and hence the
\* codeword of encodeData, equals that of the standard shift-and-XOR long
\* division.  (Stated as in the claim; the loop of the code XORs with an
\* all-ones divisor on a leading 0.)
C18_CanonicalRemainder ==
    LET RECURSIVE Canonical(_, _, _, _)
        Canonical(tmp, pick, dividend, divisor) ==
            LET step == IF tmp[1] = 1 THEN xor(divisor, tmp)
                        ELSE xor(Zeros(Len(divisor)), tmp)
            IN  IF pick < Len(dividend)
                THEN Canonical(Append(step, dividend[pick + 1]), pick + 1,
                               dividend, divisor)
                ELSE step
        dividend == data \o Zeros(Len(key) - 1)
    IN  (crc_pc = "encoded" /\ Len(data) >= 1 /\ key[1] = 1)
           => /\ codeword.exc = "none"
              /\ codeword.val = data \o Canonical(SubSeq(dividend, 1, Len(key)),
                                                  Len(key), dividend, key)

\* C19: at the start of every iteration of the timing loop 0 <= mu < 1;
\* each iteration adds sps + 0.3*error to mu, advances i_in by the floor of
\* the new mu and keeps only the fractional remainder in mu, for every value
\* of the timing error (a negative new mu included).  With mu as a numerator
\* over MuDen: i_in + mu grows by exactly sps + 0.3*error and mu stays in
\* [0, MuDen).
C19_MuInvariant ==
    /\ [](0 <= mu /\ mu < MuDen)
    /\ [][(mm_iter' = mm_iter + 1)
            => /\ 0 <= mu' /\ mu' < MuDen
               /\ \E e \in ErrVals \cup {0} :
                     i_in' * MuDen + mu' = i_in * MuDen + mu + sps * MuDen + 3 * e]_vars

\* C19 witness: the second iteration met the timing error -27 (-432
\* sixteenths): the new mu 8 - 8.1 = -0.1 has floor -1, so i_in went from 8
\* to 7 and mu became 0.9.
C19_Witness ==
    mm_pc = "loop" /\ mm_iter = 2 /\ i_in = 7 /\ mu = 144

(***************************************************************************)
(* The Costas loop of decode (func.py) and costas (sync.py).  phase and    *)
(* freq are binary floating-point numbers; the model keeps the rounding    *)
(* rule of IEEE 754 (round to nearest, ties to even) with a significand of *)
(* MantBits bits instead of 53.  A number is an integer count of the       *)
(* smallest spacing; numbers of magnitude below 2^(MantBits+e) are spaced  *)
(* 2^e apart.  The rotated sample enters through error = Re(out)*Im(out).  *)
(***************************************************************************)
RECURSIVE Pow2(_)
Pow2(e) == IF e <= 0 THEN 1 ELSE 2 * Pow2(e - 1)

\* The spacing of the floating-point numbers around magnitude m.
RECURSIVE Spacing(_)
Spacing(m) == IF m < Pow2(MantBits) THEN 1 ELSE 2 * Spacing(m \div 2)

\* The floating-point number nearest to x, ties to the even significand.
Fl(x) ==
    LET m == Abs(x)
        sp == Spacing(m)
        lo == (m \div sp) * sp
        rem == m - lo
        r == IF 2 * rem < sp THEN lo
             ELSE IF 2 * rem > sp THEN lo + sp
             ELSE IF (lo \div sp) % 2 = 0 THEN lo ELSE lo + sp
    IN  IF x < 0 THEN -r ELSE r

\* 2*np.pi: the significand 13 (1.625*4 = 6.5, the 4-bit number nearest
\* 6.2832) at spacing 4.
TwoPi == 52

\* error = np.real(out[i]) * np.imag(out[i]): tiny, moderate and huge values
CLErrVals == {-4352, -20, -1, 0, 1, 20, 4352}

InitCL ==
    /\ cl_pc = "sample"
    /\ cl_N \in 0..MaxCLLen
    /\ cl_i = 0
    /\ cl_phase = 0
    /\ cl_freq = 0
    /\ cl_alpha \in 0..MaxCLGain
    /\ cl_beta \in 0..MaxCLGain
    /\ cl_fn \in {"decode", "costas"}
    /\ cl_out_n = 0
    /\ cl_log_n = 0
    /\ cl_exc = "none"
    /\ CoreIdle /\ PSIdle /\ ENIdle /\ ObjIdle /\ DEIdle /\ IQIdle /\ OCIdle

\* out[i] = ...; error = ...; freq += beta*error; phase += freq + alpha*error
CLSample ==
    /\ cl_pc = "sample" /\ cl_i < cl_N /\ cl_fn = "decode"
    /\ \E error_ \in CLErrVals :
          LET freq1 == Fl(cl_freq + Fl(cl_beta * error_))
          IN  /\ cl_freq' = freq1
              /\ cl_phase' = Fl(cl_phase + Fl(freq1 + Fl(cl_alpha * error_)))
    /\ cl_pc' = "wrapdown"
    /\ cl_out_n' = cl_out_n + 1
    /\ cl_log_n' = cl_log_n + 1
    /\ UNCHANGED <<cl_fn, cl_exc>>
    /\ UNCHANGED <<cl_N, cl_i, cl_alpha, cl_beta, coreVars, psVars, enVars, objVars,
                   deVars, iqVars, ocVars>>

\* costas of sync.py: out[i] is written and freq updated, then
\* freq_log.append(freq * fs / (2*np.pi)) reads fs, a name that neither the
\* function nor the module defines: NameError.
CLSampleRaise ==
    /\ cl_pc = "sample" /\ cl_i < cl_N /\ cl_fn = "costas"
    /\ \E error_ \in CLErrVals : cl_freq' = Fl(cl_freq + Fl(cl_beta * error_))
    /\ cl_out_n' = cl_out_n + 1
    /\ cl_exc' = "NameError"
    /\ cl_pc' = "raised"
    /\ UNCHANGED <<cl_fn, cl_log_n, cl_phase>>
    /\ UNCHANGED <<cl_N, cl_i, cl_alpha, cl_beta, coreVars, psVars, enVars, objVars,
                   deVars, iqVars, ocVars>>

\* while phase >= 2*np.pi: phase -= 2*np.pi   (one iteration)
CLWrapDown ==
    /\ cl_pc = "wrapdown" /\ cl_phase >= TwoPi
    /\ cl_phase' = Fl(cl_phase - TwoPi)
    /\ UNCHANGED <<cl_fn, cl_out_n, cl_log_n, cl_exc>>
    /\ UNCHANGED <<cl_pc, cl_N, cl_i, cl_freq, cl_alpha, cl_beta, coreVars, psVars,
                   enVars, objVars, deVars, iqVars, ocVars>>

\* the first while loop ends
CLWrapDownExit ==
    /\ cl_pc = "wrapdown" /\ ~(cl_phase >= TwoPi)
    /\ cl_pc' = "wrapup"
    /\ UNCHANGED <<cl_fn, cl_out_n, cl_log_n, cl_exc>>
    /\ UNCHANGED <<cl_N, cl_i, cl_phase, cl_freq, cl_alpha, cl_beta, coreVars, psVars,
                   enVars, objVars, deVars, iqVars, ocVars>>

\* while phase < 0: phase += 2*np.pi   (one iteration)
CLWrapUp ==
    /\ cl_pc = "wrapup" /\ cl_phase < 0
    /\ cl_phase' = Fl(cl_phase + TwoPi)
    /\ UNCHANGED <<cl_fn, cl_out_n, cl_log_n, cl_exc>>
    /\ UNCHANGED <<cl_pc, cl_N, cl_i, cl_freq, cl_alpha, cl_beta, coreVars, psVars,
                   enVars, objVars, deVars, iqVars, ocVars>>

\* the second while loop ends: the per-sample step is complete
CLWrapUpExit ==
    /\ cl_pc = "wrapup" /\ ~(cl_phase < 0)
    /\ cl_i' = cl_i + 1
    /\ cl_pc' = "sample"
    /\ UNCHANGED <<cl_fn, cl_out_n, cl_log_n, cl_exc>>
    /\ UNCHANGED <<cl_N, cl_phase, cl_freq, cl_alpha, cl_beta, coreVars, psVars,
                   enVars, objVars, deVars, iqVars, ocVars>>

\* the for loop ends: testpacket = out
CLReturn ==
    /\ cl_pc = "sample" /\ cl_i = cl_N
    /\ cl_pc' = "returned"
    /\ UNCHANGED <<cl_fn, cl_out_n, cl_log_n, cl_exc>>
    /\ UNCHANGED <<cl_N, cl_i, cl_phase, cl_freq, cl_alpha, cl_beta, coreVars, psVars,
                   enVars, objVars, deVars, iqVars, ocVars>>

NextCL ==
    CLSample \/ CLSampleRaise \/ CLWrapDown \/ CLWrapDownExit \/ CLWrapUp \/ CLWrapUpExit \/ CLReturn

SpecCL == InitCL /\ [][NextCL]_vars

\* C20: after every per-sample step of the Costas loop 0 <= phase < 2*pi,
\* for every finite input sample and gain, and the two wrap loops terminate
\* (every iteration of a wrap loop brings phase strictly nearer the range).
\* (Stated as in the claim; in floating point a tiny negative phase plus
\* 2*pi is 2*pi, and a huge phase minus 2*pi is the same phase.)
C20_PhaseInRange ==
    /\ (cl_pc \in {"sample", "returned"}) => (0 <= cl_phase /\ cl_phase < TwoPi)
    /\ (cl_pc = "wrapdown" /\ cl_phase >= TwoPi) => Fl(cl_phase - TwoPi) < cl_phase
    /\ (cl_pc = "wrapup" /\ cl_phase < 0) => Fl(cl_phase + TwoPi) > cl_phase

\* C21: the Costas loop consumes the whole input left to right: out and
\* freq_log hold one entry per sample taken so far, the loop ends only by
\* returning after len(input) steps (never by an exception, never stuck in
\* a wrap loop that no longer changes phase), and phase and freq are zero
\* before the first sample.
C21_WholeInput ==
    /\ cl_pc \in {"sample", "returned"} => (cl_out_n = cl_i /\ cl_log_n = cl_i)
    /\ cl_pc \in {"wrapdown", "wrapup"} => (cl_out_n = cl_i + 1 /\ cl_log_n = cl_i + 1)
    /\ cl_pc = "returned" => cl_i = cl_N
    /\ (cl_pc = "sample" /\ cl_i = 0) => (cl_phase = 0 /\ cl_freq = 0)
    /\ cl_pc # "raised" /\ cl_exc = "none"
    /\ (cl_pc = "wrapdown" /\ cl_phase >= TwoPi) => Fl(cl_phase - TwoPi) # cl_phase

\* C22: frame sync chooses exactly one index per buffer, the index of the
\* global maximum of crosscorr: once the argmax statement has run, idx is an
\* index of crosscorr, no entry of crosscorr is strictly larger than
\* crosscorr[idx], and every entry before idx is strictly smaller (the
\* smallest index wins a tie).
C22_GlobalMaximum ==
    (fs_pc \in {"peak", "done", "demod", "raised"})
        => /\ fs_pc # "raised"
           /\ fs_idx \in 0..(Len(fs_crosscorr) - 1)
           /\ \A j \in 1..Len(fs_crosscorr) : fs_crosscorr[j] <= fs_crosscorr[fs_idx + 1]
           /\ \A j \in 1..fs_idx : fs_crosscorr[j] < fs_crosscorr[fs_idx + 1]

\* C23: frame sync rescales every sample x to (x + scale) / (2*scale) with
\* scale = mean(|testpacket|) = S/n.  fs_out holds numerators over 2*n*n, so
\* the claimed value (n*x + S)/(2*S) equals fs_out[i]/(2*n*n) exactly when
\* fs_out[i] * S = (n*x + S) * n*n  (scale > 0).
C23_Rescale ==
    LET n == Len(fs_testpacket)
        S == SumAbs(fs_testpacket)
    IN  (fs_pc \in {"scaled", "correlated", "peak", "done", "demod"} /\ S > 0)
            => /\ Len(fs_out) = n
               /\ \A i \in 1..n : fs_out[i] * S = (n * fs_testpacket[i] + S) * n * n

\* C24: QPSK and 16-QAM demodulation emit exactly one label per symbol, the
\* label of a reference point (scaled by channel_gain) at minimum distance
\* from the symbol, and among tied references the one tried first: QPSK in
\* the order 11, 10, 00, 01 (label I,Q), 16-QAM in the order 1111, 1110, ...,
\* 0000 (label q1,q0,i1,i0, a larger binary value is tried earlier).
C24_NearestReference ==
    /\ (dm_scheme = "QPSK" /\ dm_pc = "done")
          => LET n == Len(dm_symbols)
                 rank(l) == CHOOSE k \in 1..4 :
                               << <<1, 1>>, <<1, 0>>, <<0, 0>>, <<0, 1>> >>[k] = l
                 d(i, l) == DistSqC(dm_symbols[i], QPSKReference(l, dm_gain))
             IN  /\ Len(dm_demodulated) = 2 * n
                 /\ \A i \in 1..n :
                       LET l == <<dm_demodulated[i], dm_demodulated[n + i]>>
                       IN  \A o \in Bit \X Bit :
                              /\ d(i, l) <= d(i, o)
                              /\ rank(o) < rank(l) => d(i, l) < d(i, o)
    /\ (dm_scheme = "QAM" /\ dm_pc = "done" /\ dm_preamble_len <= Len(dm_symbols))
          => LET pre == dm_preamble_len
                 n == Len(dm_symbols) - pre
                 value(l) == 8 * l[1] + 4 * l[2] + 2 * l[3] + l[4]
                 d(i, l) == DistSqC(dm_symbols[pre + i], QAMReference(l, dm_gain))
             IN  /\ Len(dm_demodulated) = pre + 4 * n
                 /\ \A i \in 1..n :
                       LET l == SubSeq(dm_demodulated, pre + 4*i - 3, pre + 4*i)
                       IN  \A o \in Bit \X Bit \X Bit \X Bit :
                              /\ d(i, l) <= d(i, o)
                              /\ value(o) > value(l) => d(i, l) < d(i, o)

\* C24 witness: a 16-QAM symbol midway between four references (I = 2,
\* Q = -2 at gain 1: +1 and +3 tie on I, -1 and -3 tie on Q) has been given
\* the label 0111 (Q = -1, I = +1), the first of the four in the order.
C24_Witness ==
    /\ dm_scheme = "QAM" /\ dm_pc = "done" /\ dm_gain = 1 /\ dm_preamble_len = 0
    /\ dm_symbols = << <<2, -2>> >>
    /\ dm_demodulated = <<0, 1, 1, 1>>

\* C25 as stated: every output element is 0 or 1; QPSK with n symbols gives
\* 2n bits, the I bits of all symbols then the Q bits of all symbols; 16-QAM
\* gives preamble_len preamble bits (1 iff real part > 0.5) and then exactly
\* 4 bits for each remaining symbol.
C25_OutputLayoutAsStated ==
    /\ dm_pc \in {"done", "roundtrip"} => \A i \in 1..Len(dm_demodulated) : dm_demodulated[i] \in Bit
    /\ (dm_scheme = "QPSK" /\ dm_pc = "done")
          => LET n == Len(dm_symbols)
             IN  /\ Len(dm_demodulated) = 2 * n
                 /\ \A i \in 1..n :
                       /\ dm_demodulated[i] = QPSKDecide(dm_symbols[i], dm_gain)[1]
                       /\ dm_demodulated[n + i] = QPSKDecide(dm_symbols[i], dm_gain)[2]
    /\ (dm_scheme = "QAM" /\ dm_pc \in {"done", "roundtrip"})
          => LET pre == dm_preamble_len
                 n == Max(Len(dm_symbols) - pre, 0)
             IN  /\ Len(dm_demodulated) = pre + 4 * n
                 /\ \A i \in 1..pre :
                       dm_demodulated[i] = (IF 2 * dm_symbols[i][1] > 1 THEN 1 ELSE 0)
                 /\ \A i \in 1..n :
                       SubSeq(dm_demodulated, pre + 4*i - 3, pre + 4*i)
                          = QAMDecide(dm_symbols[pre + i], dm_gain)

\* C25, amended: as above, but for 16-QAM with n symbols the preamble part
\* has min(preamble_len, n) bits, one for each of the first
\* min(preamble_len, n) symbols, followed by exactly 4 bits for each of the
\* n - min(preamble_len, n) remaining symbols.
C25_OutputLayout ==
    /\ dm_pc \in {"done", "roundtrip"} => \A i \in 1..Len(dm_demodulated) : dm_demodulated[i] \in Bit
    /\ (dm_scheme = "QPSK" /\ dm_pc = "done")
          => LET n == Len(dm_symbols)
             IN  /\ Len(dm_demodulated) = 2 * n
                 /\ \A i \in 1..n :
                       /\ dm_demodulated[i] = QPSKDecide(dm_symbols[i], dm_gain)[1]
                       /\ dm_demodulated[n + i] = QPSKDecide(dm_symbols[i], dm_gain)[2]
    /\ (dm_scheme = "QAM" /\ dm_pc \in {"done", "roundtrip"})
          => LET pre == Min(dm_preamble_len, Len(dm_symbols))
                 n == Len(dm_symbols) - pre
             IN  /\ Len(dm_demodulated) = pre + 4 * n
                 /\ \A i \in 1..pre :
                       dm_demodulated[i] = (IF 2 * dm_symbols[i][1] > 1 THEN 1 ELSE 0)
                 /\ \A i \in 1..n :
                       SubSeq(dm_demodulated, pre + 4*i - 3, pre + 4*i)
                          = QAMDecide(dm_symbols[pre + i], dm_gain)

\* C25 witness: a 16-QAM call with preamble_len 2 on a single symbol 1+0j
\* has returned the one preamble bit 1 and no payload bits.
C25_Witness ==
    /\ dm_scheme = "QAM" /\ dm_pc = "done" /\ dm_preamble_len = 2
    /\ dm_symbols = << <<1, 0>> >>
    /\ dm_demodulated = <<1>>

\* C26: Mean(array, p) has one entry per element, and entry i is the mean of
\* exactly the elements at the indices max(0, i-p) .. min(n-1, i+p), each
\* counted once: its sum and its count are those of that window, and the
\* centred branches I - BI and Q - BQ are formed from these means.
C26_SymmetricWindow ==
    (iq_pc \in {"centred", "estimated", "returned"})
        => LET n == Len(iq_I)
               p == iq_mean_period
               F == Factorial(n)
               lo(k) == Max(1, k - p)
               hi(k) == Min(n, k + p)
               window(x, k) == SumSeq(SubSeq(x, lo(k), hi(k)))
               count(k) == hi(k) - lo(k) + 1
           IN  /\ Len(Mean(iq_I, p)) = n /\ Len(Mean(iq_Q, p)) = n
               /\ \A k \in 1..n :
                     /\ Mean(iq_I, p)[k] = <<window(iq_I, k), count(k)>>
                     /\ Mean(iq_Q, p)[k] = <<window(iq_Q, k), count(k)>>
                     /\ iq_I_second[k] * count(k) = F * (count(k) * iq_I[k] - window(iq_I, k))
                     /\ iq_Q_Second[k] * count(k) = F * (count(k) * iq_Q[k] - window(iq_Q, k))

\* C26 witness: I = 1, 0, -1 with radius 1.  The windows are {0,1}, {0,1,2},
\* {1,2} with means 1/2, 0, -1/2, so I - BI = 1/2, 0, -1/2 (times 3! = 6).
C26_Witness ==
    /\ iq_pc = "centred" /\ iq_mean_period = 1
    /\ iq_I = <<1, 0, -1>>
    /\ iq_I_second = <<3, 0, -3>>

\* C27: for non-empty data d and key k the check accepts exactly one tail:
\* CRCcheck(d followed by t, k) returns 0 if and only if t is the remainder
\* that encodeData(d, k) appended; and the sequence of XOR decisions of the
\* division is the same for every tail and for either value of k[0].
C27_UniqueTail ==
    (crc_pc = "tailchecked" /\ Len(data) >= 1)
        => LET L == Len(key)
               decisions(w, k) == mod2divDecisions(SubSeq(w, 1, L), L, w, k)
               otherkey == [key EXCEPT ![1] = 1 - @]
           IN  /\ error.exc = "none"
               /\ Len(codeword.val) = Len(data) + L - 1
               /\ (error.val = 0) <=> (data \o crc_tail = codeword.val)
               /\ Len(decisions(data \o crc_tail, key)) = Len(data)
               /\ decisions(data \o crc_tail, key) = decisions(data \o Zeros(L - 1), key)
               /\ decisions(data \o crc_tail, key) = decisions(data \o crc_tail, otherkey)

\* C27 witness: with the 12-bit key and three data bits the check has
\* accepted a tail that is not all zeros, the remainder encodeData appended.
C27_Witness ==
    /\ crc_pc = "tailchecked" /\ key = CRC_key /\ Len(data) = 3
    /\ error = Ok(0)
    /\ ~AllZero(crc_tail)
    /\ codeword.val = data \o crc_tail

\* C28: in every iteration of the timing loop, whatever the timing errors,
\* i_in is non-negative and never decreases, and the read index
\* i_in*16 + floor(mu*16) lies in [0, 16*len(testpacket)): no read raises and
\* none wraps around to the end of the interpolated buffer.
C28_ReadIndexInRange ==
    /\ [](mm_pc \in {"loop", "done", "raised"} => i_in >= 0)
    /\ [](mm_pc # "raised")
    /\ []((mm_pc = "loop" /\ MMLoopCond)
            => (0 <= MMReadIndex /\ MMReadIndex < InterpLen(mm_len)))
    /\ [][i_in' >= i_in]_vars

\* C29: the window frame sync returns consists of exactly the buffer
\* elements at the positions (0-based) idx-len(preamble)+1 .. idx+data_len
\* that lie inside the buffer, in order; when idx < len(preamble)-1 the
\* window starts at position 0: nothing is taken from the end of the buffer
\* and the window is neither emptied nor shifted.
C29_WindowInsideBuffer ==
    (fs_pc \in {"done", "demod"})
        => LET n == Len(fs_testpacket)
               first == Max(fs_idx - Len(fs_preamble) + 1, 0)
               last == Min(fs_idx + fs_data_len, n - 1)
           IN  fs_recoveredPayload = SubSeq(fs_testpacket, first + 1, last + 1)

(***************************************************************************)
(* One SignalProcessing object used for a sequence of operations: encode   *)
(* calls, direct assignments to data_length (receive_signal_procssing.py)  *)
(* and decode calls, one after the other.  Of decode the frame sync window *)
(* is kept; the buffer holds a frame at the correlation peak idx = 59.     *)
(***************************************************************************)
\* Mutant of OCEncodeLength: encode leaves self.data_length alone.
OCEncodeLength_Kept(data_len, old) == old

\* self.data_length = len(data), first statement of encode
OCEncodeLength(data_len, old) == data_len

\* the number of symbols of a frame around data_len data bits: preamble,
\* data and remainder
OCFrameLen(data_len) == Len(Preamble60) + data_len + Len(CRC_key) - 1

\* processor = SignalProcessing(data_length=...)
InitOC ==
    /\ oc_pc = "init"
    /\ obj_data_length \in 0..MaxObjData
    /\ oc_last_write = "init"
    /\ oc_last_encode = -1
    /\ oc_last_assign = obj_data_length
    /\ oc_frames = {}
    /\ oc_decoded = NoDecode
    /\ CoreIdle /\ PSIdle /\ ENIdle /\ DEIdle /\ IQIdle /\ CLIdle

\* iq_data = processor.encode(data)
OCEncode ==
    /\ \E data_len \in 0..MaxObjData :
          /\ obj_data_length' = OCEncodeLength(data_len, obj_data_length)
          /\ oc_last_encode' = data_len
          /\ oc_frames' = oc_frames \cup {data_len}
    /\ oc_last_write' = "encode"
    /\ oc_pc' = "encoded"
    /\ UNCHANGED <<oc_last_assign, oc_decoded, coreVars, psVars, enVars, deVars,
                   iqVars, clVars>>

\* processor.data_length = ...
OCAssign ==
    /\ \E v \in 0..MaxObjData :
          /\ obj_data_length' = v
          /\ oc_last_assign' = v
    /\ oc_last_write' = "assign"
    /\ oc_pc' = "assigned"
    /\ UNCHANGED <<oc_last_encode, oc_frames, oc_decoded, coreVars, psVars, enVars,
                   deVars, iqVars, clVars>>

\* processor.decode(iq_data) on a buffer that holds a frame of frame data
\* bits followed by tail idle symbols
OCDecode ==
    /\ \E frame \in 0..MaxObjData, tail \in 0..MaxObjTail :
          LET len == OCFrameLen(frame) + tail
              idx == DEArgmax(len, Len(Preamble60) - 1)
          IN  oc_decoded' = [frame |-> frame, len |-> len,
                             used |-> obj_data_length + Len(CRC_key) - 1,
                             window |-> DERecover(len, idx, obj_data_length)]
    /\ oc_pc' = "decoded"
    /\ UNCHANGED <<obj_data_length, oc_last_write, oc_last_encode, oc_last_assign,
                   oc_frames, coreVars, psVars, enVars, deVars, iqVars, clVars>>

NextOC == OCEncode \/ OCAssign \/ OCDecode

SpecOC == InitOC /\ [][NextOC]_vars

\* C30 as stated: decode uses data_length + len(CRC_key) - 1 payload symbols
\* where data_length is the length of the data of the most recent encode
\* call, or, if encode was never called, the constructor value / the last
\* direct assignment.
C30_LastEncodeLength ==
    (oc_pc = "decoded")
        => LET data_length == IF oc_last_encode # -1 THEN oc_last_encode
                              ELSE oc_last_assign
           IN  oc_decoded.used = data_length + Len(CRC_key) - 1

\* C30, amended: data_length is the value written last to self.data_length,
\* by the most recent encode call (the length of its data), by a direct
\* assignment after it, or by the constructor if neither happened.  The
\* window is recoveredData = testpacket[idx+1 : idx+1+data_length+11], cut at
\* the end of the buffer, whatever the length of the frame in the buffer.
C30_LastWrittenLength ==
    (oc_pc = "decoded")
        => LET data_length == IF oc_last_write = "encode" THEN oc_last_encode
                              ELSE oc_last_assign
               used == data_length + Len(CRC_key) - 1
               first == Len(Preamble60) + 1
               last == Min(Len(Preamble60) + used, oc_decoded.len)
           IN  /\ obj_data_length = data_length
               /\ oc_decoded.used = used
               /\ oc_decoded.window = [i \in 1..(last - first + 1) |-> first + i - 1]

\* C30 witness: frames of 1 and of 2 data bits were encoded, the 2-bit one
\* last, and a decode of the 1-bit frame has used 2 + 11 symbols.
C30_Witness ==
    /\ oc_pc = "decoded" /\ oc_frames = {1, 2}
    /\ oc_last_write = "encode" /\ oc_last_encode = 2
    /\ oc_decoded.frame = 1 /\ oc_decoded.used = 13

====
